---------------------------- MODULE Spec2Model ----------------------------
(***************************************************************************)
(* CelestialGuide backend: the celestial position engine                   *)
(* (backend/core/astronomy.py) and the natal chart engine                  *)
(* (backend/core/astrology_calc.py).                                       *)
(*                                                                         *)
(* The specifications of the module:                                       *)
(*   Spec       the memoized single-star path together with the batch path *)
(*   SpecBulk   the batch path alone, over richer batches                  *)
(*   SpecHouse  calculate_houses / get_house_for_planet                    *)
(*   SpecAspect calculate_aspect                                           *)
(*   SpecRetro  find_retrograde_periods, one loop iteration per step       *)
(*   SpecJulian datetime_to_julian_day                                     *)
(*   SpecSign   degree_to_sign_info on floats                              *)
(*   SpecProvider calculate_houses over names and provider layouts         *)
(*   SpecChart  calculate_natal_chart                                      *)
(*   SpecApi    POST /natal-chart                                          *)
(*   SpecPlanets calculate_planets_positions                               *)
(*   SpecSky    every path that reports a visibility flag                  *)
(*   SpecCusps  get_house_for_planet on cusp lists of any shape            *)
(*   SpecScan   find_retrograde_periods with fairness, backward ranges too *)
(*   SpecTransit GET /transit-dates                                        *)
(*   SpecRange  the ranges of azimuth and altitude                         *)
(*   SpecAgree  the single-star path against the batch path                *)
(*   SpecRace   calculate_star_position step by step, calls interleaved    *)
(* Each specification leaves the variables of the others at their initial  *)
(* values.                                                                 *)
(***************************************************************************)
EXTENDS Integers, Sequences, FiniteSets, TLC

VARIABLES
    now,            \* the clock read by the cache timer and by ts.now()
    heap,           \* the StarPosition objects created so far; a reference is an index
    calc_cache,     \* the TTLCache: links <<key, value, expires>>, least recently used first
    history,        \* one record per calculate_star_position call that returned
    bulkOut,        \* the last calculate_bulk_positions call: its inputs and its result
    houses_data,    \* the dict returned by calculate_houses, once it has returned
    planet_house,   \* the last get_house_for_planet call: longitude and returned house
    aspectOut,      \* the last calculate_aspect call: angle1, angle2 and the result
    retro,          \* the frame of find_retrograde_periods
    housesOut,      \* the last calculate_houses call: its inputs and its outcome
    jdOut,          \* the last datetime_to_julian_day call: its inputs and its outcome
    signOut,        \* the last degree_to_sign_info call: its input and its outcome
    chart,          \* the last calculate_natal_chart call: its inputs and its outcome
    response,       \* the last POST /natal-chart request and the response it got
    sunMoonOut,     \* the last calculate_sun_moon_positions call
    planetsOut,     \* the last calculate_planets_positions call
    azOut,          \* the last azimuth normalisation of the batch path, on floats
    calls           \* the calculate_star_position calls in progress, one frame per request

vars      == <<now, heap, calc_cache, history, bulkOut, houses_data, planet_house,
               aspectOut, retro, housesOut, jdOut, signOut, chart, response,
               sunMoonOut, planetsOut, azOut, calls>>
chartVars == <<housesOut, jdOut, signOut, chart, response>>
bodyVars  == <<sunMoonOut, planetsOut>>
edgeVars  == <<azOut, calls>>

(***************************************************************************)
(* Python values.  Optional[T] is None or a one-element tuple, so that a   *)
(* missing value compares unequal to every present one.                    *)
(***************************************************************************)
None == << >>
Some(x) == <<x>>
\* how a call ends: it returns a value or it raises an exception of some type
Returned(v) == [kind |-> "return", value |-> v]
Raises(e) == [kind |-> "raise", error |-> e]
Abs(x) == IF x < 0 THEN -x ELSE x
Min(a, b) == IF a <= b THEN a ELSE b

(***************************************************************************)
(* Bounds of the position engine's model.  The source builds               *)
(* TTLCache(maxsize=1000, ttl=3600); the model keeps the container's       *)
(* behaviour and scales both numbers down so that capacity eviction and    *)
(* expiry happen within a few calls.                                       *)
(***************************************************************************)
MaxSize == 2
Ttl == 2
MaxCalls == 4
MaxBatch == 3
MaxTime == Ttl

\* Settings.min_altitude
min_altitude == 0

(***************************************************************************)
(* Inputs.  A target is the argument list of calculate_star_position; the  *)
(* anonymous target has Sirius' coordinates and the defaults for the       *)
(* descriptive arguments (the field-of-view centre of the star map is      *)
(* requested this way).  Magnitudes and parallaxes are integers chosen so  *)
(* that 1000 / parallax is exact.                                          *)
(***************************************************************************)
Sirius == [ra_hours |-> 7, dec_degrees |-> -17, magnitude |-> -1,
           name |-> "Sirius", hip_id |-> Some(32349), parallax_mas |-> Some(500)]
Anonymous == [ra_hours |-> 7, dec_degrees |-> -17, magnitude |-> 0,
              name |-> "", hip_id |-> None, parallax_mas |-> None]
Vega == [ra_hours |-> 19, dec_degrees |-> 39, magnitude |-> 0,
         name |-> "Vega", hip_id |-> Some(91262), parallax_mas |-> Some(125)]
Targets == {Sirius, Anonymous, Vega}

\* ObserverLocation: datetime_utc is None or an instant (a clock reading).
ObserverAt(dt) == [latitude |-> 41, longitude |-> 30, elevation |-> 0, datetime_utc |-> dt]
Observers == {ObserverAt(None), ObserverAt(Some(1))}

\* datetime.isoformat(): one string per instant, written here as a tagged tuple.
IsoFormat(dt) == <<"iso", dt>>

(***************************************************************************)
(* The ephemeris.  Skyfield (single path) and the NumPy trigonometry       *)
(* (batch path) are outside the repository; both are represented by one    *)
(* deterministic integer-degree stand-in that depends on every argument    *)
(* the real computation depends on: the altitude runs linearly in the hour *)
(* angle between the upper culmination 90 - |lat - dec| and the lower      *)
(* culmination |lat + dec| - 90, the azimuth is measured from the          *)
(* meridian.                                                               *)
(***************************************************************************)
Gast(t) == (3 * t) % 24
HourAngle(ra_hours, longitude, t) == (15 * Gast(t) + longitude - 15 * ra_hours) % 360
HaDist(ha) == IF ha <= 180 THEN ha ELSE 360 - ha
TriAlt(dec, lat, ha) ==
    LET upper == 90 - Abs(lat - dec)
        lower == Abs(lat + dec) - 90
    IN  upper + ((lower - upper) * HaDist(ha)) \div 180
TriAz(ha) == (180 + ha) % 360

\* apparent.altaz('standard'): the refraction uses the pressure at the observer's elevation.
StandardRefraction(alt, elevation) ==
    IF alt >= -1 /\ alt <= 0 /\ elevation < 3000 THEN 1 ELSE 0
SkyfieldAltAz(ra_hours, dec, observer, t) ==
    LET ha == HourAngle(ra_hours, observer.longitude, t)
        alt == TriAlt(dec, observer.latitude, ha)
    IN  [alt |-> alt + StandardRefraction(alt, observer.elevation), az |-> TriAz(ha)]

(***************************************************************************)
(* cachetools.TTLCache as calculate_star_position uses it.  The links are  *)
(* kept least recently used first.                                         *)
(***************************************************************************)
CacheKey(tg, ob) ==
    <<tg.ra_hours, tg.dec_degrees, ob.latitude, ob.longitude,
      IF ob.datetime_utc # None THEN Some(IsoFormat(ob.datetime_utc[1])) ELSE None>>

\* key in calc_cache: present and not expired; nothing is reordered or removed
CacheContains(cache, key, time) ==
    \E i \in DOMAIN cache : cache[i].key = key /\ time < cache[i].expires

CacheIndex(cache, key) == CHOOSE i \in DOMAIN cache : cache[i].key = key

\* calc_cache[key]: the value; the link moves to the most recently used end
CacheGetValue(cache, key) == cache[CacheIndex(cache, key)].value
CacheTouch(cache, key) ==
    LET i == CacheIndex(cache, key)
    IN  SelectSeq(cache, LAMBDA l : l.key # key) \o <<cache[i]>>

\* expire(time): every link whose time has come is removed
CacheExpire(cache, time) == SelectSeq(cache, LAMBDA l : time < l.expires)

\* a mutant of CacheRoom: a full cache grows instead of giving up its oldest link
CacheRoomKeepAll(cache) == cache
\* popitem() while the cache is full: the least recently used links go
CacheRoom(cache) ==
    IF Len(cache) + 1 > MaxSize
    THEN SubSeq(cache, Len(cache) + 2 - MaxSize, Len(cache))
    ELSE cache
CacheEvicted(cache) ==
    IF Len(cache) + 1 > MaxSize
    THEN {cache[i].key : i \in 1..(Len(cache) + 1 - MaxSize)}
    ELSE {}

\* calc_cache[key] = value
CacheSetItem(cache, key, value, time) ==
    LET live == CacheExpire(cache, time)
        others == SelectSeq(live, LAMBDA l : l.key # key)
        kept == IF \E i \in DOMAIN live : live[i].key = key THEN others ELSE CacheRoom(live)
    IN  kept \o <<[key |-> key, value |-> value, expires |-> time + Ttl]>>
CacheSetEvicted(cache, key, time) ==
    LET live == CacheExpire(cache, time)
    IN  IF \E i \in DOMAIN live : live[i].key = key THEN {} ELSE CacheEvicted(live)

(***************************************************************************)
(* calculate_star_position                                                 *)
(***************************************************************************)
\* distance = 1000.0 / parallax_mas when parallax_mas is truthy and positive
DistanceOf(parallax_mas) ==
    IF parallax_mas # None /\ parallax_mas[1] # 0 /\ parallax_mas[1] > 0
    THEN Some(1000 \div parallax_mas[1])
    ELSE None

\* the time of the computation: the observer's instant, or ts.now()
ObservationTime(ob, clock) == IF ob.datetime_utc # None THEN ob.datetime_utc[1] ELSE clock

\* the StarPosition built on a cache miss
NewStarPosition(tg, ob, clock) ==
    LET aa == SkyfieldAltAz(tg.ra_hours, tg.dec_degrees, ob, ObservationTime(ob, clock))
    IN  [name |-> tg.name, hip_id |-> tg.hip_id,
         ra |-> tg.ra_hours * 15, dec |-> tg.dec_degrees,
         altitude |-> aa.alt, azimuth |-> aa.az,
         magnitude |-> tg.magnitude,
         is_visible |-> aa.alt > min_altitude,
         distance |-> DistanceOf(tg.parallax_mas)]

\* a mutant of OverwriteOnHit: the hit forgets to refresh the descriptive fields
OverwriteOnHitStale(cached, tg) == cached
\* the assignments made to the cached object on a hit
OverwriteOnHit(cached, tg) ==
    [cached EXCEPT !.name = tg.name, !.hip_id = tg.hip_id, !.magnitude = tg.magnitude]

CalculateStarPosition(tg, ob) ==
    LET cache_key == CacheKey(tg, ob)
    IN  /\ Len(history) < MaxCalls
        /\ IF CacheContains(calc_cache, cache_key, now)
           THEN LET ref == CacheGetValue(calc_cache, cache_key)
                    obj == OverwriteOnHit(heap[ref], tg)
                IN  /\ calc_cache' = CacheTouch(calc_cache, cache_key)
                    /\ heap' = [heap EXCEPT ![ref] = obj]
                    /\ history' = Append(history,
                           [key |-> cache_key, target |-> tg, observer |-> ob, time |-> now,
                            hit |-> TRUE, ref |-> ref, ret |-> obj, evicted |-> {}])
           ELSE LET position == NewStarPosition(tg, ob, now)
                    ref == Len(heap) + 1
                IN  /\ heap' = Append(heap, position)
                    /\ calc_cache' = CacheSetItem(calc_cache, cache_key, ref, now)
                    /\ history' = Append(history,
                           [key |-> cache_key, target |-> tg, observer |-> ob, time |-> now,
                            hit |-> FALSE, ref |-> ref, ret |-> position,
                            evicted |-> CacheSetEvicted(calc_cache, cache_key, now)])
        /\ UNCHANGED <<now, bulkOut, houses_data, planet_house, aspectOut, retro,
                       chartVars, bodyVars, edgeVars>>

\* time passes between two requests; the clock starts with the first request
Tick ==
    /\ history # << >> \/ bulkOut # << >>
    /\ now < MaxTime
    /\ now' = now + 1
    /\ UNCHANGED <<heap, calc_cache, history, bulkOut, houses_data, planet_house,
                   aspectOut, retro, chartVars, bodyVars, edgeVars>>


(***************************************************************************)
(* calculate_bulk_positions                                                *)
(***************************************************************************)
\* the (ra_hours, dec_degrees, magnitude) tuple of a catalogue row
StarTuple(tg) == <<tg.ra_hours, tg.dec_degrees, tg.magnitude>>

\* the refraction term added to the altitude, active only above -1 degree
BulkRefraction(alt) == IF alt > -1 THEN (IF alt <= 0 THEN 1 ELSE 0) ELSE 0

\* steps 1-5 for one row: hour angle from the batch's LST, altitude, azimuth, refraction
BulkAltAz(ra_hours, dec, ob, t) ==
    LET ha == HourAngle(ra_hours, ob.longitude, t)
        alt == TriAlt(dec, ob.latitude, ha)
    IN  [alt |-> alt + BulkRefraction(alt), az |-> TriAz(ha)]

\* the StarPosition appended for row i
BulkRow(row, ob, t) ==
    LET aa == BulkAltAz(row[1], row[2], ob, t)
    IN  [name |-> "", hip_id |-> None,
         ra |-> row[1] * 15, dec |-> row[2],
         altitude |-> aa.alt, azimuth |-> aa.az,
         magnitude |-> row[3],
         is_visible |-> aa.alt > min_altitude,
         distance |-> None]

\* a mutant of BulkPositions: the rows come back in reverse order
BulkPositionsReversed(stars_data, ob, clock) ==
    [i \in 1..Len(stars_data) |->
        BulkRow(stars_data[Len(stars_data) + 1 - i], ob, ObservationTime(ob, clock))]
\* the list returned for a batch
BulkPositions(stars_data, ob, clock) ==
    IF stars_data = << >>
    THEN << >>
    ELSE [i \in 1..Len(stars_data) |-> BulkRow(stars_data[i], ob, ObservationTime(ob, clock))]

\* a mutant of CalculateBulkPositions: the batch memoizes its first row
CalculateBulkPositionsMemo(stars_data, ob) ==
    LET result == BulkPositions(stars_data, ob, now)
        key == <<stars_data[1][1], stars_data[1][2], ob.latitude, ob.longitude,
                 IF ob.datetime_utc # None THEN Some(IsoFormat(ob.datetime_utc[1])) ELSE None>>
    IN  /\ bulkOut' = <<[stars_data |-> stars_data, observer |-> ob, result |-> result]>>
        /\ IF stars_data # << >>
           THEN /\ heap' = Append(heap, result[1])
                /\ calc_cache' = CacheSetItem(calc_cache, key, Len(heap) + 1, now)
           ELSE UNCHANGED <<heap, calc_cache>>
        /\ UNCHANGED <<now, history, houses_data, planet_house, aspectOut, retro,
                       chartVars, bodyVars, edgeVars>>
CalculateBulkPositions(stars_data, ob) ==
    /\ bulkOut' = <<[stars_data |-> stars_data, observer |-> ob,
                     result |-> BulkPositions(stars_data, ob, now)]>>
    /\ UNCHANGED <<now, heap, calc_cache, history, houses_data, planet_house,
                   aspectOut, retro, chartVars, bodyVars, edgeVars>>

(***************************************************************************)
(* Spec: requests of the star search and of the star map, one after the    *)
(* other, with time passing in between.                                    *)
(***************************************************************************)
IdleHouse  == houses_data = << >> /\ planet_house = << >>
IdleAspect == aspectOut = << >>
IdleRetro  == retro = << >>

InitPos ==
    /\ now = 0
    /\ heap = << >>
    /\ calc_cache = << >>
    /\ history = << >>
    /\ bulkOut = << >>

IdleChart  == /\ housesOut = << >> /\ jdOut = << >> /\ signOut = << >>
              /\ chart = << >> /\ response = << >>
IdleBodies == sunMoonOut = << >> /\ planetsOut = << >>
IdleEdge   == azOut = << >> /\ calls = << >>

Init == /\ InitPos /\ IdleHouse /\ IdleAspect /\ IdleRetro /\ IdleChart /\ IdleBodies
        /\ IdleEdge

\* the batch of the star map in Spec
MapBatch == <<StarTuple(Sirius), StarTuple(Vega)>>

SingleCall == \E tg \in Targets, ob \in Observers : CalculateStarPosition(tg, ob)
MapCall == CalculateBulkPositions(MapBatch, ObserverAt(Some(1)))

Next == SingleCall \/ MapCall \/ Tick

Spec == Init /\ [][Next]_vars

(***************************************************************************)
(* SpecBulk: the batch path over every batch of up to MaxBatch rows.       *)
(***************************************************************************)
RECURSIVE SeqsUpTo(_, _)
SeqsUpTo(S, n) ==
    IF n = 0 THEN {<< >>}
    ELSE LET shorter == SeqsUpTo(S, n - 1)
         IN  shorter \cup {Append(s, x) : s \in {q \in shorter : Len(q) = n - 1}, x \in S}

Batches == SeqsUpTo({StarTuple(tg) : tg \in Targets}, MaxBatch)

BulkCall == \E stars_data \in Batches, ob \in Observers : CalculateBulkPositions(stars_data, ob)

NextBulk == BulkCall \/ Tick

SpecBulk == Init /\ [][NextBulk]_vars

(***************************************************************************)
(* Properties of the position engine                                       *)
(***************************************************************************)
SameGeometry(a, b) ==
    /\ a.altitude = b.altitude
    /\ a.azimuth = b.azimuth
    /\ a.is_visible = b.is_visible
    /\ a.distance = b.distance

FreshDescription(h) ==
    /\ h.ret.name = h.target.name
    /\ h.ret.hip_id = h.target.hip_id
    /\ h.ret.magnitude = h.target.magnitude

\* call j has call i's key and happens within the TTL of call i, which computed its result
WithinTtl(i, j) ==
    /\ i < j
    /\ ~history[i].hit
    /\ history[j].key = history[i].key
    /\ history[j].time < history[i].time + Ttl

\* no call between i and j evicted the key of call i to make room for another key
NotEvictedBetween(i, j) ==
    \A m \in (i + 1)..(j - 1) : history[i].key \notin history[m].evicted

\* C1 as stated: of any two calls with the same key, the second within the TTL of the
\* first, the second returns the altitude, azimuth, visibility flag and distance the
\* first computed, with name, hip_id and magnitude those of the second call.
C1_HitWithinTtl ==
    \A i, j \in DOMAIN history :
        WithinTtl(i, j) =>
            SameGeometry(history[j].ret, history[i].ret) /\ FreshDescription(history[j])

\* C1 amended: the same, provided the entry of the first call was not evicted in between
\* to make room for other keys (the cache holds at most maxsize entries).
C1_HitWhileCached ==
    \A i, j \in DOMAIN history :
        (WithinTtl(i, j) /\ NotEvictedBetween(i, j)) =>
            /\ history[j].hit
            /\ history[j].ref = history[i].ref
            /\ SameGeometry(history[j].ret, history[i].ret)
            /\ FreshDescription(history[j])

\* a later call hit the entry of an earlier one, with another name and another parallax
C1_Witness ==
    \E i, j \in DOMAIN history :
        /\ WithinTtl(i, j) /\ NotEvictedBetween(i, j)
        /\ history[j].time > history[i].time
        /\ history[j].target.name # history[i].target.name
        /\ DistanceOf(history[j].target.parallax_mas) # DistanceOf(history[i].target.parallax_mas)
        /\ history[j].ret.distance = history[i].ret.distance
        /\ history[j].ret.name = history[j].target.name

\* C2: a StarPosition that calculate_star_position has returned is never changed by a
\* later call: every returned object still has the fields it was returned with.
C2_NeverMutated ==
    \A i \in DOMAIN history : heap[history[i].ref] = history[i].ret

\* C4: a batch call leaves the memoization cache (and the objects it holds) as it was,
\* and its result is the row-by-row computation from its own arguments, whatever the
\* earlier calculate_star_position calls put in the cache.
C4_BulkUncached ==
    [][bulkOut' # bulkOut =>
          /\ calc_cache' = calc_cache
          /\ heap' = heap
          /\ LET b == bulkOut'[1]
             IN  /\ Len(b.result) = Len(b.stars_data)
                 /\ \A i \in 1..Len(b.stars_data) :
                        b.result[i] = BulkRow(b.stars_data[i], b.observer,
                                              ObservationTime(b.observer, now))]_vars

\* a batch result is held while the cache holds a live entry for the batch's first star
\* and observer, created by calculate_star_position
C4_Witness ==
    /\ bulkOut # << >>
    /\ CacheContains(calc_cache, CacheKey(Sirius, bulkOut[1].observer), now)
    /\ \E i \in DOMAIN history : StarTuple(history[i].target) = bulkOut[1].stars_data[1]

(***************************************************************************)
(* Properties of the batch path (SpecBulk)                                 *)
(***************************************************************************)
\* C3: the batch result has the length and the order of its input: row i has
\* ra = 15 x RA_i, dec = Dec_i, magnitude = magnitude_i, name = "" and hip_id = None;
\* an empty input gives an empty list.
C3_BulkShape ==
    bulkOut # << >> =>
        LET b == bulkOut[1]
        IN  /\ Len(b.result) = Len(b.stars_data)
            /\ b.stars_data = << >> => b.result = << >>
            /\ \A i \in 1..Len(b.stars_data) :
                   /\ b.result[i].ra = 15 * b.stars_data[i][1]
                   /\ b.result[i].dec = b.stars_data[i][2]
                   /\ b.result[i].magnitude = b.stars_data[i][3]
                   /\ b.result[i].name = ""
                   /\ b.result[i].hip_id = None

\* a batch of at least two different rows has been computed
C3_Witness ==
    /\ bulkOut # << >>
    /\ Len(bulkOut[1].stars_data) >= 2
    /\ bulkOut[1].stars_data[1] # bulkOut[1].stars_data[2]
    /\ bulkOut[1].result[1].ra # bulkOut[1].result[2].ra

(***************************************************************************)
(* Natal chart engine: signs and houses                                    *)
(***************************************************************************)
ZODIAC_SIGNS == <<"Aries", "Taurus", "Gemini", "Cancer", "Leo", "Virgo", "Libra",
                  "Scorpio", "Sagittarius", "Capricorn", "Aquarius", "Pisces">>

HOUSE_SYSTEMS == ("Placidus" :> "P") @@ ("Koch" :> "K") @@ ("Whole Sign" :> "W") @@
                 ("Equal" :> "E") @@ ("Campanus" :> "C") @@ ("Regiomontanus" :> "R")

\* degree_to_sign_info: (sign_name, degree_in_sign), for a whole number of degrees, on
\* which the float arithmetic is exact
DegreeToSignInfo(degree) ==
    LET d == degree % 360
        sign_index == d \div 30
    IN  <<ZODIAC_SIGNS[sign_index + 1], d % 30>>

(***************************************************************************)
(* swe.houses, the ephemeris routine, is outside the repository.  Its      *)
(* answer is represented by the ascendant it finds for (jd, lat, lon) and, *)
(* per house system, the offsets of cusps 2..6 from the ascendant; cusps   *)
(* 7..12 lie opposite cusps 1..6.  Whole Sign starts at the ascendant's    *)
(* sign.  The twelve cusps are distinct and run once around the circle.    *)
(***************************************************************************)
QuadrantOffsets(hsys) ==
    CASE hsys = "P" -> <<0, 24, 52, 85, 120, 152>>
      [] hsys = "K" -> <<0, 8, 20, 40, 100, 160>>
      [] hsys = "C" -> <<0, 33, 64, 92, 119, 148>>
      [] hsys = "R" -> <<0, 29, 61, 97, 128, 155>>
      [] OTHER      -> <<0, 30, 60, 90, 120, 150>>

SweHouses(asc, hsys) ==
    LET first == IF hsys = "W" THEN 30 * (asc \div 30) ELSE asc
        off == QuadrantOffsets(hsys)
        cusps == [i \in 1..12 |->
                    IF i <= 6 THEN (first + off[i]) % 360
                              ELSE (first + off[i - 6] + 180) % 360]
    IN  [cusps |-> cusps, ascmc |-> <<asc, cusps[10]>>]

Ascendants == {5 * k : k \in 0..71}
Longitudes == 0..359

\* "formatted": the whole degrees within the sign, then the sign
Formatted(info) == <<info[2], info[1]>>

AngleInfo(degree) ==
    LET info == DegreeToSignInfo(degree)
    IN  [degree |-> degree, sign |-> info[1], degree_in_sign |-> info[2],
         formatted |-> Formatted(info)]

\* the house_cusps list: house i + 1 takes cusps[i]
HouseCuspsOf(cusps) ==
    [i \in 1..12 |->
        LET info == DegreeToSignInfo(cusps[i])
        IN  [house |-> i, degree |-> cusps[i], sign |-> info[1], degree_in_sign |-> info[2]]]

(***************************************************************************)
(* How many values the ephemeris routine hands back is its own affair: a   *)
(* layout gives the length of the cusp tuple and of the angle tuple.  The  *)
(* current binding gives 12 cusps and 10 angles; the layout the comment in *)
(* calculate_houses describes has 13 cusps, the first one unused.          *)
(***************************************************************************)
Layout(ncusps, nascmc) == [ncusps |-> ncusps, nascmc |-> nascmc]
CurrentLayout == Layout(12, 10)

SweHousesLayout(asc, hsys, layout) ==
    LET full == SweHouses(asc, hsys)
        cusps == IF layout.ncusps > 12
                 THEN [i \in 1..layout.ncusps |->
                          IF i = 1 \/ i > 13 THEN 0 ELSE full.cusps[i - 1]]
                 ELSE SubSeq(full.cusps, 1, layout.ncusps)
        ascmc == [i \in 1..layout.nascmc |-> IF i <= 2 THEN full.ascmc[i] ELSE 0]
    IN  [cusps |-> cusps, ascmc |-> ascmc]

\* HOUSE_SYSTEMS.get(house_system, b'P')
HouseSystemCode(house_system) ==
    IF house_system \in DOMAIN HOUSE_SYSTEMS THEN HOUSE_SYSTEMS[house_system] ELSE "P"

\* not (len(cusps) < 12)
CuspCountAccepted(cusps) == ~(Len(cusps) < 12)

\* calculate_houses as a function of the provider's answer
CalculateHousesOutcome(asc, house_system, layout) ==
    LET hsys == HouseSystemCode(house_system)
        result == SweHousesLayout(asc, hsys, layout)
    IN  IF Len(result.ascmc) < 2 THEN Raises("ValueError")
        ELSE IF ~CuspCountAccepted(result.cusps) THEN Raises("ValueError")
        ELSE Returned([ascendant |-> AngleInfo(result.ascmc[1]),
                       midheaven |-> AngleInfo(result.ascmc[2]),
                       house_cusps |-> HouseCuspsOf(result.cusps)])

\* calculate_houses; houses_data is assigned when the call returns
CalculateHouses(asc, house_system, layout) ==
    LET outcome == CalculateHousesOutcome(asc, house_system, layout)
    IN  /\ housesOut = << >>
        /\ housesOut' = <<[asc |-> asc, house_system |-> house_system, layout |-> layout,
                           provided |-> SweHousesLayout(asc, HouseSystemCode(house_system),
                                                        layout),
                           outcome |-> outcome]>>
        /\ houses_data' = IF outcome.kind = "return" THEN <<outcome.value>> ELSE houses_data
        /\ UNCHANGED <<now, heap, calc_cache, history, bulkOut, planet_house,
                       aspectOut, retro, jdOut, signOut, chart, response, bodyVars, edgeVars>>

\* the test applied to house i (0-based) in get_house_for_planet
RECURSIVE HouseFrom(_, _, _)
HouseFrom(i, planet_longitude, house_cusps) ==
    IF i > 11 THEN 1
    ELSE LET cusp_start == house_cusps[i + 1].degree
             cusp_end == house_cusps[((i + 1) % 12) + 1].degree
             inside == IF cusp_start > cusp_end
                       THEN planet_longitude >= cusp_start \/ planet_longitude < cusp_end
                       ELSE cusp_start <= planet_longitude /\ planet_longitude < cusp_end
         IN  IF inside THEN i + 1 ELSE HouseFrom(i + 1, planet_longitude, house_cusps)

\* a mutant of GetHouseForPlanet: the wrap-around house is tested with "and"
RECURSIVE HouseFromAndWrap(_, _, _)
HouseFromAndWrap(i, planet_longitude, house_cusps) ==
    IF i > 11 THEN 1
    ELSE LET cusp_start == house_cusps[i + 1].degree
             cusp_end == house_cusps[((i + 1) % 12) + 1].degree
             inside == IF cusp_start > cusp_end
                       THEN planet_longitude >= cusp_start /\ planet_longitude < cusp_end
                       ELSE cusp_start <= planet_longitude /\ planet_longitude < cusp_end
         IN  IF inside THEN i + 1 ELSE HouseFromAndWrap(i + 1, planet_longitude, house_cusps)
GetHouseForPlanetAndWrap(planet_longitude, house_cusps) ==
    HouseFromAndWrap(0, planet_longitude, house_cusps)

\* a mutant of GetHouseForPlanet: a house owns its closing cusp instead of its opening one
RECURSIVE HouseFromClosing(_, _, _)
HouseFromClosing(i, planet_longitude, house_cusps) ==
    IF i > 11 THEN 1
    ELSE LET cusp_start == house_cusps[i + 1].degree
             cusp_end == house_cusps[((i + 1) % 12) + 1].degree
             inside == IF cusp_start > cusp_end
                       THEN planet_longitude > cusp_start \/ planet_longitude <= cusp_end
                       ELSE cusp_start < planet_longitude /\ planet_longitude <= cusp_end
         IN  IF inside THEN i + 1 ELSE HouseFromClosing(i + 1, planet_longitude, house_cusps)
GetHouseForPlanetClosing(planet_longitude, house_cusps) ==
    HouseFromClosing(0, planet_longitude, house_cusps)

\* a mutant of GetHouseForPlanet: the loop stops after eleven houses
RECURSIVE HouseFromEleven(_, _, _)
HouseFromEleven(i, planet_longitude, house_cusps) ==
    IF i > 10 THEN 1
    ELSE LET cusp_start == house_cusps[i + 1].degree
             cusp_end == house_cusps[((i + 1) % 12) + 1].degree
             inside == IF cusp_start > cusp_end
                       THEN planet_longitude >= cusp_start \/ planet_longitude < cusp_end
                       ELSE cusp_start <= planet_longitude /\ planet_longitude < cusp_end
         IN  IF inside THEN i + 1 ELSE HouseFromEleven(i + 1, planet_longitude, house_cusps)
GetHouseForPlanetEleven(planet_longitude, house_cusps) ==
    HouseFromEleven(0, planet_longitude, house_cusps)

\* get_house_for_planet
GetHouseForPlanet(planet_longitude, house_cusps) ==
    HouseFrom(0, planet_longitude, house_cusps)

\* the house lookup of one body in calculate_natal_chart; the lookup reads the cusps and
\* writes nothing, so one lookup per chart reaches every (cusps, longitude) pair
AssignHouse(planet_longitude) ==
    /\ houses_data # << >>
    /\ planet_house = << >>
    /\ planet_house' =
           <<[longitude |-> planet_longitude,
              house |-> GetHouseForPlanet(planet_longitude, houses_data[1].house_cusps)]>>
    /\ UNCHANGED <<now, heap, calc_cache, history, bulkOut, houses_data, aspectOut, retro,
                   chartVars, bodyVars, edgeVars>>

HousesCall == \E asc \in Ascendants, hs \in DOMAIN HOUSE_SYSTEMS :
                  CalculateHouses(asc, hs, CurrentLayout)
AssignCall == \E lon \in Longitudes : AssignHouse(lon)

NextHouse == HousesCall \/ AssignCall

SpecHouse == Init /\ [][NextHouse]_vars

(***************************************************************************)
(* Properties of the house assignment (SpecHouse)                          *)
(***************************************************************************)
NextCusp(i) == (i % 12) + 1

\* cyclically increasing with exactly one wrap across 0/360
WellFormed(house_cusps) ==
    Cardinality({i \in 1..12 :
                   house_cusps[i].degree > house_cusps[NextCusp(i)].degree}) = 1

\* the membership test of house i as the claim states it
Member(i, lon, house_cusps) ==
    LET lo == house_cusps[i].degree
        hi == house_cusps[NextCusp(i)].degree
    IN  IF lo > hi THEN lon >= lo \/ lon < hi ELSE lo <= lon /\ lon < hi

\* C5: for well-formed cusps the looked-up longitude satisfies the membership test of
\* exactly one house, and get_house_for_planet returned that house, a number in 1..12.
C5_ExactlyOneHouse ==
    (planet_house # << >> /\ WellFormed(houses_data[1].house_cusps)) =>
        LET hc == houses_data[1].house_cusps
            lon == planet_house[1].longitude
            holders == {i \in 1..12 : Member(i, lon, hc)}
        IN  /\ Cardinality(holders) = 1
            /\ planet_house[1].house \in holders
            /\ planet_house[1].house \in 1..12

\* a longitude below the closing cusp of the wrapping house, which is not house 1
C5_Witness ==
    /\ planet_house # << >>
    /\ WellFormed(houses_data[1].house_cusps)
    /\ LET hc == houses_data[1].house_cusps
           h == planet_house[1].house
       IN  /\ h # 1
           /\ hc[h].degree > hc[NextCusp(h)].degree
           /\ planet_house[1].longitude < hc[NextCusp(h)].degree

\* C6: get_house_for_planet places cusp i of calculate_houses in house i, for every i
\* in 1..12, so the twelve cusps fall in twelve different houses.
C6_CuspInOwnHouse ==
    (houses_data # << >> /\ planet_house = << >>) =>
        LET hc == houses_data[1].house_cusps
        IN  \A i \in 1..12 : GetHouseForPlanet(hc[i].degree, hc) = i

\* calculate_houses returned cusps whose wrap across 0/360 lies inside the list
C6_Witness ==
    /\ houses_data # << >>
    /\ planet_house = << >>
    /\ \E i \in 1..11 :
          houses_data[1].house_cusps[i].degree > houses_data[1].house_cusps[i + 1].degree
    /\ Cardinality({houses_data[1].house_cusps[i].degree : i \in 1..12}) = 12

(***************************************************************************)
(* Natal chart engine: aspects.  Longitudes are in thousandths of a degree *)
(* so that the rounding of the orb to two decimals has something to round; *)
(* the orb of a result is in hundredths of a degree.                       *)
(***************************************************************************)
Milli(deg) == 1000 * deg

\* ASPECTS, in the order of the dict: (angle, orb) in degrees
ASPECTS == <<[name |-> "Conjunction",  angle |-> 0,   orb |-> 10],
             [name |-> "Opposition",   angle |-> 180, orb |-> 10],
             [name |-> "Trine",        angle |-> 120, orb |-> 8],
             [name |-> "Square",       angle |-> 90,  orb |-> 8],
             [name |-> "Sextile",      angle |-> 60,  orb |-> 6],
             [name |-> "Quincunx",     angle |-> 150, orb |-> 3],
             [name |-> "Semi-Sextile", angle |-> 30,  orb |-> 2]>>

\* round(x, 2) of a non-negative x given in thousandths: the nearest hundredth.  No
\* input of the model lies halfway between two hundredths.
Round2(x) == (x + 5) \div 10

\* a mutant of AngularDistance: the difference is taken without abs()
AngularDistanceSigned(angle1, angle2) ==
    LET diff == angle1 - angle2
    IN  IF diff > Milli(180) THEN Milli(360) - diff ELSE diff
\* diff = abs(angle1 - angle2), folded at 180
AngularDistance(angle1, angle2) ==
    LET diff == Abs(angle1 - angle2)
    IN  IF diff > Milli(180) THEN Milli(360) - diff ELSE diff

\* a mutant of WithinOrb: the orb is taken on each side twice over
WithinOrbDoubled(diff, aspect) == Abs(diff - Milli(aspect.angle)) <= 2 * Milli(aspect.orb)
\* a mutant of WithinOrb: the orb boundary is excluded
WithinOrbStrict(diff, aspect) == Abs(diff - Milli(aspect.angle)) < Milli(aspect.orb)
\* abs(diff - aspect_angle) <= orb
WithinOrb(diff, aspect) == Abs(diff - Milli(aspect.angle)) <= Milli(aspect.orb)

\* the loop over ASPECTS.items() from entry k on
RECURSIVE AspectFrom(_, _)
AspectFrom(k, diff) ==
    IF k > Len(ASPECTS) THEN None
    ELSE IF WithinOrb(diff, ASPECTS[k])
         THEN Some([type |-> ASPECTS[k].name,
                    angle |-> ASPECTS[k].angle,
                    orb |-> Round2(Abs(diff - Milli(ASPECTS[k].angle))),
                    applying |-> TRUE])
         ELSE AspectFrom(k + 1, diff)

\* calculate_aspect
CalculateAspect(angle1, angle2) == AspectFrom(1, AngularDistance(angle1, angle2))

\* the longitudes tried: every whole degree, and just above and just below it
Fractions == {0, 4, 996}
GridLongitudes == {Milli(d) + f : d \in 0..359, f \in Fractions}
PivotLongitudes == {Milli(0), Milli(10), Milli(95), Milli(190), Milli(359) + 996}

AspectCall(angle1, angle2) ==
    /\ aspectOut' = <<[angle1 |-> angle1, angle2 |-> angle2,
                       result |-> CalculateAspect(angle1, angle2)]>>
    /\ UNCHANGED <<now, heap, calc_cache, history, bulkOut, houses_data, planet_house,
                   retro, chartVars, bodyVars, edgeVars>>

AspectForward == \E a \in PivotLongitudes, b \in GridLongitudes : aspectOut = << >> /\ AspectCall(a, b)
AspectBackward == \E a \in PivotLongitudes, b \in GridLongitudes : aspectOut = << >> /\ AspectCall(b, a)

NextAspect == AspectForward \/ AspectBackward

SpecAspect == Init /\ [][NextAspect]_vars

(***************************************************************************)
(* Properties of calculate_aspect (SpecAspect)                             *)
(***************************************************************************)
\* the aspect definitions as the claim lists them: name, ideal angle, orb
ClaimedAspects == <<<<"Conjunction", 0, 10>>, <<"Opposition", 180, 10>>, <<"Trine", 120, 8>>,
                    <<"Square", 90, 8>>, <<"Sextile", 60, 6>>, <<"Quincunx", 150, 3>>,
                    <<"Semi-Sextile", 30, 2>>>>

Separation(a, b) == Min(Abs(a - b), Milli(360) - Abs(a - b))

Deviation(sep, k) == Abs(sep - Milli(ClaimedAspects[k][2]))

\* C7: the separation is min(|a-b|, 360-|a-b|); the result is the first aspect of the
\* claimed order whose deviation from the ideal angle is at most its orb (boundary
\* included), with that angle and the deviation rounded to two decimals as orb, and None
\* when no aspect is within orb.  10 and 190 give Opposition with orb 0; 0 and 95 give
\* Square with orb 5.00.
C7_FirstAspectWithinOrb ==
    aspectOut # << >> =>
        LET a == aspectOut[1].angle1
            b == aspectOut[1].angle2
            r == aspectOut[1].result
            sep == Separation(a, b)
            within == {k \in 1..7 : Deviation(sep, k) <= Milli(ClaimedAspects[k][3])}
        IN  /\ within = {} => r = None
            /\ within # {} =>
                  LET k == CHOOSE m \in within : \A n \in within : m <= n
                  IN  /\ r # None
                      /\ r[1].type = ClaimedAspects[k][1]
                      /\ r[1].angle = ClaimedAspects[k][2]
                      /\ 10 * r[1].orb - 5 <= Deviation(sep, k)
                      /\ Deviation(sep, k) < 10 * r[1].orb + 5
            /\ (a = Milli(10) /\ b = Milli(190)) =>
                  (r # None /\ r[1].type = "Opposition" /\ r[1].orb = 0)
            /\ (a = Milli(0) /\ b = Milli(95)) =>
                  (r # None /\ r[1].type = "Square" /\ r[1].orb = 500)

\* an aspect found exactly on its orb boundary, and one whose orb is rounded
C7_Witness ==
    /\ aspectOut # << >>
    /\ aspectOut[1].result # None
    /\ aspectOut[1].angle1 = Milli(0)
    /\ aspectOut[1].angle2 = Milli(98)
    /\ aspectOut[1].result[1].type = "Square"
    /\ aspectOut[1].result[1].orb = 800

\* C8: calculate_aspect(a, b) equals calculate_aspect(b, a): the same type, angle, orb
\* and applying flag, or both None.
C8_Symmetric ==
    aspectOut # << >> =>
        aspectOut[1].result = CalculateAspect(aspectOut[1].angle2, aspectOut[1].angle1)

\* an aspect between two different longitudes more than 180 degrees apart on the dial
C8_Witness ==
    /\ aspectOut # << >>
    /\ aspectOut[1].result # None
    /\ aspectOut[1].angle2 - aspectOut[1].angle1 > Milli(180)
    /\ aspectOut[1].result[1].orb > 0

(***************************************************************************)
(* Natal chart engine: find_retrograde_periods.  A Julian Day at 0h UT is  *)
(* a whole number and a half; the model holds twice the Julian Day, an odd *)
(* integer, so that "jd += 1" adds 2.                                      *)
(***************************************************************************)
MaxDays == 6

\* the Julian Day Number (at noon) of a Gregorian calendar date
JulianDayNumber(y, m, d) ==
    LET a == (14 - m) \div 12
        yy == y + 4800 - a
        mm == m + 12 * a - 3
    IN  d + (153 * mm + 2) \div 5 + 365 * yy + yy \div 4 - yy \div 100 + yy \div 400 - 32045

\* swe.julday(year, month, day, 0), doubled
JulDay2(date) == 2 * JulianDayNumber(date[1], date[2], date[3]) - 1

\* swe.revjul(jd) for a doubled Julian Day: (year, month, day) of the Gregorian calendar
RevJul(jd2) ==
    LET J == (jd2 + 1) \div 2
        f == J + 1401 + (((4 * J + 274277) \div 146097) * 3) \div 4 - 38
        e == 4 * f + 3
        g == (e % 1461) \div 4
        h == 5 * g + 2
        D == (h % 153) \div 5 + 1
        M == ((h \div 153 + 2) % 12) + 1
        Y == e \div 1461 - 4716 + (12 + 2 - M) \div 12
    IN  <<Y, M, D>>

\* f"{int(y)}-{int(m):02d}-{int(d):02d}": one string per date, written as the triple
FormatDate(ymd) == <<ymd[1], ymd[2], ymd[3]>>

\* position[3] of swe.calc_ut(jd, planet_id): the provider's speed for the sampled day
SpeedAt(f, jd) == f.speeds[(jd - f.jd_start) \div 2 + 1]

\* a mutant of Entering: a stationary day (speed 0) already counts as retrograde
EnteringStationary(speed, in_retrograde) == speed <= 0 /\ ~in_retrograde
\* speed < 0 and not in_retrograde
Entering(speed, in_retrograde) == speed < 0 /\ ~in_retrograde

\* speed >= 0 and in_retrograde
Exiting(speed, in_retrograde) == speed >= 0 /\ in_retrograde

\* the dates of the scanned range used by the model: around the leap day and the new year
StartDates == {<<2024, 2, 27>>, <<2024, 12, 29>>}
Speeds == {-1, 0, 1}
SpeedSeries(n) == [1..n -> Speeds]

\* a mutant of RetroCall: the scan stops on the day before end_date
RetroCallEndExcluded(start_date, n, speeds) ==
    /\ retro = << >>
    /\ LET end_date == RevJul(JulDay2(start_date) + 2 * (n - 1))
       IN  retro' = <<[pc |-> "loop",
                       start_date |-> start_date, end_date |-> end_date, speeds |-> speeds,
                       jd_start |-> JulDay2(start_date), jd_end |-> JulDay2(end_date) - 2,
                       jd |-> JulDay2(start_date),
                       in_retrograde |-> FALSE, retro_start |-> None,
                       retrograde_periods |-> << >>, samples |-> 0]>>
    /\ UNCHANGED <<now, heap, calc_cache, history, bulkOut, houses_data, planet_house,
                   aspectOut, chartVars, bodyVars, edgeVars>>
\* the call: the frame as it stands when the loop is first tested.  The provider's
\* speeds are fixed for the days start_date .. end_date.
RetroCall(start_date, n, speeds) ==
    /\ retro = << >>
    /\ LET end_date == RevJul(JulDay2(start_date) + 2 * (n - 1))
       IN  retro' = <<[pc |-> "loop",
                       start_date |-> start_date, end_date |-> end_date, speeds |-> speeds,
                       jd_start |-> JulDay2(start_date), jd_end |-> JulDay2(end_date),
                       jd |-> JulDay2(start_date),
                       in_retrograde |-> FALSE, retro_start |-> None,
                       retrograde_periods |-> << >>, samples |-> 0]>>
    /\ UNCHANGED <<now, heap, calc_cache, history, bulkOut, houses_data, planet_house,
                   aspectOut, chartVars, bodyVars, edgeVars>>

\* one iteration of "while jd <= jd_end"
RetroStep ==
    /\ retro # << >>
    /\ retro[1].pc = "loop"
    /\ retro[1].jd <= retro[1].jd_end
    /\ LET f == retro[1]
           speed == SpeedAt(f, f.jd)
           sampled == [f EXCEPT !.samples = f.samples + 1, !.jd = f.jd + 2]
       IN  retro' =
             IF Entering(speed, f.in_retrograde)
             THEN <<[sampled EXCEPT !.in_retrograde = TRUE, !.retro_start = Some(f.jd)]>>
             ELSE IF Exiting(speed, f.in_retrograde)
             THEN IF f.retro_start # None /\ f.retro_start[1] # 0
                  THEN <<[sampled EXCEPT
                            !.in_retrograde = FALSE,
                            !.retrograde_periods =
                                Append(f.retrograde_periods,
                                       [start_date |-> FormatDate(RevJul(f.retro_start[1])),
                                        end_date |-> FormatDate(RevJul(f.jd))])]>>
                  ELSE <<[sampled EXCEPT !.in_retrograde = FALSE]>>
             ELSE <<sampled>>
    /\ UNCHANGED <<now, heap, calc_cache, history, bulkOut, houses_data, planet_house,
                   aspectOut, chartVars, bodyVars, edgeVars>>

\* a mutant of RetroReturn: an episode still open when the loop ends is closed on the
\* last scanned day
RetroReturnClosing ==
    /\ retro # << >>
    /\ retro[1].pc = "loop"
    /\ ~(retro[1].jd <= retro[1].jd_end)
    /\ retro' =
          <<[retro[1] EXCEPT
               !.pc = "done",
               !.retrograde_periods =
                   IF retro[1].in_retrograde
                   THEN Append(retro[1].retrograde_periods,
                               [start_date |-> FormatDate(RevJul(retro[1].retro_start[1])),
                                end_date |-> FormatDate(RevJul(retro[1].jd_end))])
                   ELSE retro[1].retrograde_periods]>>
    /\ UNCHANGED <<now, heap, calc_cache, history, bulkOut, houses_data, planet_house,
                   aspectOut, chartVars, bodyVars, edgeVars>>
\* the loop test fails: return retrograde_periods
RetroReturn ==
    /\ retro # << >>
    /\ retro[1].pc = "loop"
    /\ ~(retro[1].jd <= retro[1].jd_end)
    /\ retro' = <<[retro[1] EXCEPT !.pc = "done"]>>
    /\ UNCHANGED <<now, heap, calc_cache, history, bulkOut, houses_data, planet_house,
                   aspectOut, chartVars, bodyVars, edgeVars>>

RetroEnter == \E start_date \in StartDates, n \in 0..MaxDays :
                  \E speeds \in SpeedSeries(n) : RetroCall(start_date, n, speeds)

NextRetro == RetroEnter \/ RetroStep \/ RetroReturn

SpecRetro == Init /\ [][NextRetro]_vars

(***************************************************************************)
(* Properties of find_retrograde_periods (SpecRetro)                       *)
(***************************************************************************)
\* the calendar, told independently of the Julian Day arithmetic
DaysInMonth(y, m) ==
    IF m = 2 THEN (IF y % 4 = 0 /\ (y % 100 # 0 \/ y % 400 = 0) THEN 29 ELSE 28)
    ELSE IF m \in {4, 6, 9, 11} THEN 30 ELSE 31
NextDay(date) ==
    IF date[3] < DaysInMonth(date[1], date[2]) THEN <<date[1], date[2], date[3] + 1>>
    ELSE IF date[2] < 12 THEN <<date[1], date[2] + 1, 1>>
    ELSE <<date[1] + 1, 1, 1>>
RECURSIVE DayPlus(_, _)
DayPlus(date, k) == IF k = 0 THEN date ELSE DayPlus(NextDay(date), k - 1)

\* day k (counted from 0) of the scanned range of a finished call
ScannedDays(f) == 0..(Len(f.speeds) - 1)
Negative(f, k) == f.speeds[k + 1] < 0

\* the first days of the maximal runs of negative days that a later scanned day ends
ClosedRunStarts(f) ==
    {k \in ScannedDays(f) :
        /\ Negative(f, k)
        /\ (k = 0 \/ ~Negative(f, k - 1))
        /\ \E e \in ScannedDays(f) : e > k /\ ~Negative(f, e)}

\* the day index of an emitted date
DayIndex(f, date) == CHOOSE k \in 0..(Len(f.speeds) + 1) : DayPlus(f.start_date, k) = date

C10_NegativeThroughEnd ==
    (retro # << >> /\ retro[1].pc = "done") =>
        LET f == retro[1]
            P == f.retrograde_periods
        IN  \A i \in DOMAIN P : \A k \in ScannedDays(f) :
                (DayIndex(f, P[i].start_date) <= k /\ k <= DayIndex(f, P[i].end_date))
                    => Negative(f, k)

\* find_retrograde_periods as a function of its inputs: the loop from day k on, with the
\* locals as they stand before day k is sampled
RECURSIVE ScanFrom(_, _, _, _, _, _)
ScanFrom(jd_start, speeds, k, in_retrograde, retro_start, periods) ==
    IF k > Len(speeds) THEN periods
    ELSE LET jd == jd_start + 2 * (k - 1)
             speed == speeds[k]
         IN  IF Entering(speed, in_retrograde)
             THEN ScanFrom(jd_start, speeds, k + 1, TRUE, Some(jd), periods)
             ELSE IF Exiting(speed, in_retrograde)
             THEN ScanFrom(jd_start, speeds, k + 1, FALSE, retro_start,
                           IF retro_start # None /\ retro_start[1] # 0
                           THEN Append(periods,
                                       [start_date |-> FormatDate(RevJul(retro_start[1])),
                                        end_date |-> FormatDate(RevJul(jd))])
                           ELSE periods)
             ELSE ScanFrom(jd_start, speeds, k + 1, in_retrograde, retro_start, periods)
FindRetrogradePeriods(start_date, speeds) ==
    ScanFrom(JulDay2(start_date), speeds, 1, FALSE, None, << >>)

\* the first day (counted from 0) of the run of negative days that reaches the last
\* scanned day
OpenRunStart(f) ==
    CHOOSE k \in ScannedDays(f) :
        /\ \A e \in ScannedDays(f) : e >= k => Negative(f, e)
        /\ (k = 0 \/ ~Negative(f, k - 1))

\* C11: when the speed is negative on the last scanned day, no emitted interval starts
\* in the run of negative days that contains the last day, and the intervals emitted
\* are those of a scan that stops on the day before that run.
C11_OpenEpisodeDropped ==
    (retro # << >> /\ retro[1].pc = "done" /\ Len(retro[1].speeds) > 0
       /\ Negative(retro[1], Len(retro[1].speeds) - 1)) =>
        LET f == retro[1]
            P == f.retrograde_periods
            t == OpenRunStart(f)
        IN  /\ \A i \in DOMAIN P : DayIndex(f, P[i].start_date) < t
            /\ \A i \in DOMAIN P : DayIndex(f, P[i].end_date) < t
            /\ P = FindRetrogradePeriods(f.start_date, SubSeq(f.speeds, 1, t))

\* a finished scan with one closed episode and a later episode of two days left open
C11_Witness ==
    /\ retro # << >>
    /\ retro[1].pc = "done"
    /\ Len(retro[1].speeds) >= 4
    /\ Negative(retro[1], Len(retro[1].speeds) - 1)
    /\ Negative(retro[1], Len(retro[1].speeds) - 2)
    /\ Len(retro[1].retrograde_periods) = 1

(***************************************************************************)
(* Natal chart engine: datetime_to_julian_day.  A datetime is a calendar   *)
(* date and a whole hour; its position on the time line is counted in      *)
(* hours, and a Julian Day is held in twenty-fourths of a day.  The        *)
(* datetime type ends at 0001-01-01 and 9999-12-31: arithmetic that leaves *)
(* this range raises OverflowError.                                        *)
(***************************************************************************)
AbsHour(date, hour) == 24 * JulianDayNumber(date[1], date[2], date[3]) + hour
MinHour == AbsHour(<<1, 1, 1>>, 0)
MaxHour == AbsHour(<<9999, 12, 31>>, 23)
InRange(h) == MinHour <= h /\ h <= MaxHour

\* the zones pytz knows, with their offset from UTC in hours, and names it does not know
TimeZones == ("UTC" :> 0) @@ ("Europe/Istanbul" :> 3) @@ ("America/New_York" :> -5)
UnknownZones == {"Mars/Olympus", ""}
TzNames == DOMAIN TimeZones \cup UnknownZones

\* pytz.timezone(tz_name)
PytzTimezone(tz_name) ==
    IF tz_name \in DOMAIN TimeZones THEN Returned(tz_name)
    ELSE Raises("UnknownTimeZoneError")

\* tz.localize(dt) of a naive datetime: UTC attaches itself; a zone with transitions
\* looks one day to either side of dt first
Localize(tz_name, h) ==
    IF tz_name = "UTC" THEN Returned([local |-> h, offset |-> 0])
    ELSE IF ~InRange(h - 24) \/ ~InRange(h + 24) THEN Raises("OverflowError")
    ELSE Returned([local |-> h, offset |-> TimeZones[tz_name]])

\* aware.astimezone(zone): through UTC, then to the zone's wall clock
AsTimezone(aware, offset) ==
    LET utc == aware.local - aware.offset
    IN  IF aware.offset = offset THEN Returned(aware)
        ELSE IF ~InRange(utc) \/ ~InRange(utc + offset) THEN Raises("OverflowError")
        ELSE Returned([local |-> utc + offset, offset |-> offset])

\* swe.julday(year, month, day, hour), in twenty-fourths of a day
SweJulday(date, hour) == 24 * JulianDayNumber(date[1], date[2], date[3]) - 12 + hour

\* the year, month, day and the hour of a position on the time line
DateOf(h) == RevJul(2 * (h \div 24) - 1)
HourOf(h) == h % 24

\* the body of the try block: the first exception ends it
JulianDayBody(dt, tz_name) ==
    LET tz == PytzTimezone(tz_name)
    IN  IF tz.kind = "raise" THEN tz
        ELSE LET h == AbsHour(dt.date, dt.hour)
                 dt_local == IF dt.tzinfo = None
                             THEN Localize(tz_name, h)
                             ELSE AsTimezone([local |-> h, offset |-> dt.tzinfo[1]],
                                             TimeZones[tz_name])
             IN  IF dt_local.kind = "raise" THEN dt_local
                 ELSE LET dt_utc == AsTimezone(dt_local.value, 0)
                      IN  IF dt_utc.kind = "raise" THEN dt_utc
                          ELSE Returned(SweJulday(DateOf(dt_utc.value.local),
                                                  HourOf(dt_utc.value.local)))

\* a mutant of WrapAsValueError: the handler lets the exception through as it is
WrapNothing(outcome) == outcome
\* except Exception as e: raise ValueError(...)
WrapAsValueError(outcome) ==
    IF outcome.kind = "raise" THEN Raises("ValueError") ELSE outcome

\* datetime_to_julian_day
DatetimeToJulianDay(dt, tz_name) == WrapAsValueError(JulianDayBody(dt, tz_name))

\* the datetimes tried: the two ends of the datetime range, and days well inside it
Dates == {<<1, 1, 1>>, <<1, 1, 2>>, <<2024, 3, 1>>, <<9999, 12, 30>>, <<9999, 12, 31>>}
Hours == {0, 12, 23}
TzInfos == {None, Some(0), Some(3)}
Datetimes == {[date |-> d, hour |-> h, tzinfo |-> z] : d \in Dates, h \in Hours, z \in TzInfos}

JulianDayCall(dt, tz_name) ==
    /\ jdOut = << >>
    /\ jdOut' = <<[dt |-> dt, tz_name |-> tz_name,
                   outcome |-> DatetimeToJulianDay(dt, tz_name)]>>
    /\ UNCHANGED <<now, heap, calc_cache, history, bulkOut, houses_data, planet_house,
                   aspectOut, retro, housesOut, signOut, chart, response, bodyVars, edgeVars>>

NextJulian == \E dt \in Datetimes, tz_name \in TzNames : JulianDayCall(dt, tz_name)

SpecJulian == Init /\ [][NextJulian]_vars

(***************************************************************************)
(* Properties of datetime_to_julian_day (SpecJulian)                       *)
(***************************************************************************)
\* the offset from UTC of the wall clock the datetime is read on
WallOffset(dt, tz_name) == IF dt.tzinfo = None THEN TimeZones[tz_name] ELSE dt.tzinfo[1]

\* the datetime lies at least one day inside the limits of the datetime type
WellInside(dt) ==
    /\ dt.date # <<1, 1, 1>>
    /\ dt.date # <<9999, 12, 31>>

\* C16 as stated: ValueError whenever the timezone name is not recognized, a Julian Day
\* otherwise, and no exception of another type.
C16_ValueErrorIffUnknownZone ==
    jdOut # << >> =>
        LET c == jdOut[1]
        IN  /\ c.tz_name \notin DOMAIN TimeZones => c.outcome = Raises("ValueError")
            /\ c.tz_name \in DOMAIN TimeZones => c.outcome.kind = "return"
            /\ c.outcome.kind = "raise" => c.outcome.error = "ValueError"

\* C16 amended: ValueError whenever the timezone name is not recognized; for a recognized
\* name and a datetime at least one day inside the limits of the datetime type, the
\* Julian Day of the instant, which is the wall-clock time less the zone's offset; a
\* datetime nearer to the limits may fail, then also with ValueError; no exception of
\* another type.
C16_ValueErrorOrJulianDay ==
    jdOut # << >> =>
        LET c == jdOut[1]
        IN  /\ c.tz_name \notin DOMAIN TimeZones => c.outcome = Raises("ValueError")
            /\ (c.tz_name \in DOMAIN TimeZones /\ WellInside(c.dt)) =>
                   c.outcome = Returned(AbsHour(c.dt.date, c.dt.hour)
                                          - WallOffset(c.dt, c.tz_name) - 12)
            /\ c.outcome.kind = "raise" => c.outcome.error = "ValueError"
            /\ c.outcome.kind = "return" => c.tz_name \in DOMAIN TimeZones

\* an unrecognized name was refused, for a datetime that converts in a recognized zone
C16_Witness ==
    /\ jdOut # << >>
    /\ jdOut[1].tz_name = "Mars/Olympus"
    /\ jdOut[1].dt = [date |-> <<2024, 3, 1>>, hour |-> 0, tzinfo |-> None]
    /\ jdOut[1].outcome = Raises("ValueError")
    /\ DatetimeToJulianDay(jdOut[1].dt, "Europe/Istanbul")
           = Returned(SweJulday(<<2024, 2, 29>>, 21))

(***************************************************************************)
(* Natal chart engine: degree_to_sign_info on floats.  A float has a       *)
(* mantissa of Precision bits: counted in units of the finest step the     *)
(* model looks at, every whole number below 2^Precision is a float, and    *)
(* above it the floats lie 2, 4, ... units apart.  The unit is chosen so   *)
(* that 360 degrees stands where it stands among the doubles, 1.40625      *)
(* times a power of two, one binade above the finest step.                 *)
(***************************************************************************)
Precision == 10

RECURSIVE Pow2(_)
Pow2(n) == IF n = 0 THEN 1 ELSE 2 * Pow2(n - 1)

UnitsPerDegree == Pow2(Precision - 8)
Deg(d) == d * UnitsPerDegree

\* the distance between neighbouring floats at magnitude a
RECURSIVE Quantum(_)
Quantum(a) == IF a < Pow2(Precision) THEN 1 ELSE 2 * Quantum(a \div 2)

\* the float nearest to the exact value v, ties to the even mantissa
RoundFloat(v) ==
    LET q == Quantum(Abs(v))
        lower == (v \div q) * q
        rest == v - lower
    IN  IF 2 * rest < q THEN lower
        ELSE IF 2 * rest > q THEN lower + q
        ELSE IF (lower \div q) % 2 = 0 THEN lower ELSE lower + q

\* C fmod: exact, with the sign of x
Fmod(x, y) == IF x >= 0 THEN x % y ELSE -((-x) % y)

\* float x % y for y > 0: fmod, and y added to a negative remainder
FloatMod(x, y) ==
    LET mod == Fmod(x, y)
    IN  IF mod # 0 /\ mod < 0 THEN RoundFloat(mod + y) ELSE mod

\* int(x // y) for y > 0
FloatFloorDiv(x, y) ==
    LET mod == Fmod(x, y)
        div == (x - mod) \div y
    IN  IF mod # 0 /\ mod < 0 THEN div - 1 ELSE div

\* ZODIAC_SIGNS[sign_index]
SignAt(sign_index) ==
    IF sign_index \in 0..11 THEN Returned(ZODIAC_SIGNS[sign_index + 1])
    ELSE IF sign_index \in -12..-1 THEN Returned(ZODIAC_SIGNS[sign_index + 13])
    ELSE Raises("IndexError")

\* degree_to_sign_info
DegreeToSignInfoFloat(degree) ==
    LET degree1 == FloatMod(degree, Deg(360))
        sign_index == FloatFloorDiv(degree1, Deg(30))
        degree_in_sign == FloatMod(degree1, Deg(30))
        sign == SignAt(sign_index)
    IN  IF sign.kind = "raise" THEN sign
        ELSE Returned([sign_index |-> sign_index, sign |-> sign.value,
                       degree_in_sign |-> degree_in_sign])

\* the degrees tried: whole degrees on both sides of [0, 360), half degrees, and the
\* finest steps on both sides of zero
WholeDegrees == {Deg(d) : d \in -400..760}
HalfDegrees == {Deg(d) + UnitsPerDegree \div 2 : d \in {-31, -1, 0, 29, 125, 359}}
FineDegrees == {-3, -2, -1, 1, 2, 3}
FloatDegrees == WholeDegrees \cup HalfDegrees \cup FineDegrees

SignInfoCall(degree) ==
    /\ signOut = << >>
    /\ signOut' = <<[degree |-> degree, outcome |-> DegreeToSignInfoFloat(degree)]>>
    /\ UNCHANGED <<now, heap, calc_cache, history, bulkOut, houses_data, planet_house,
                   aspectOut, retro, housesOut, jdOut, chart, response, bodyVars, edgeVars>>

NextSign == \E degree \in FloatDegrees : SignInfoCall(degree)

SpecSign == Init /\ [][NextSign]_vars

(***************************************************************************)
(* Properties of degree_to_sign_info (SpecSign)                            *)
(***************************************************************************)
AriesFirst == <<"Aries", "Taurus", "Gemini", "Cancer", "Leo", "Virgo", "Libra",
                "Scorpio", "Sagittarius", "Capricorn", "Aquarius", "Pisces">>

\* two floats that differ by no more than the rounding of one operation below 360
Close(a, b) == Abs(a - b) <= Quantum(Deg(360)) \div 2

\* C19: for every input degree, negative values and values of 360 and more included,
\* the sign is the element at index floor((degree mod 360) / 30) of the Aries-first list,
\* the index is in 0..11, degree_in_sign = degree mod 30 lies in [0, 30), and
\* 30 * index + degree_in_sign = degree mod 360; 125 gives Leo, 5.0.  The equalities
\* between floats are read up to the rounding of one operation.
C19_SignOfEveryDegree ==
    signOut # << >> =>
        LET c == signOut[1]
            index == (c.degree % Deg(360)) \div Deg(30)
        IN  /\ c.outcome.kind = "return"
            /\ c.outcome.value.sign_index \in 0..11
            /\ c.outcome.value.sign = AriesFirst[c.outcome.value.sign_index + 1]
            /\ c.outcome.value.sign = AriesFirst[index + 1]
            /\ Close(c.outcome.value.degree_in_sign, c.degree % Deg(30))
            /\ c.outcome.value.degree_in_sign >= 0
            /\ c.outcome.value.degree_in_sign < Deg(30)
            /\ Close(Deg(30) * c.outcome.value.sign_index + c.outcome.value.degree_in_sign,
                     c.degree % Deg(360))
            /\ c.degree = Deg(125) =>
                   c.outcome.value.sign = "Leo" /\ c.outcome.value.degree_in_sign = Deg(5)

(***************************************************************************)
(* SpecProvider: calculate_houses over every house-system name, known or   *)
(* not, and over the layouts the ephemeris routine may answer with.        *)
(***************************************************************************)
Layouts == {Layout(nc, na) : nc \in {0, 11, 12, 13}, na \in {0, 1, 2, 10}}
UnknownSystems == {"Topocentric", "placidus"}
HouseSystemNames == DOMAIN HOUSE_SYSTEMS \cup UnknownSystems
ProviderAscendants == {0, 95, 200, 355}

NextProvider ==
    \E asc \in ProviderAscendants, hs \in HouseSystemNames, layout \in Layouts :
        CalculateHouses(asc, hs, layout)

SpecProvider == Init /\ [][NextProvider]_vars

\* C17: calculate_houses returns a result only when the ephemeris routine yielded exactly
\* 12 house cusps and an Ascendant and Midheaven pair; the result then holds 12 cusps
\* numbered 1..12 in the provider's order; every other cusp or angle count raises.
C17_ExactlyTwelveCusps ==
    housesOut # << >> =>
        LET c == housesOut[1]
            counted == Len(c.provided.cusps) = 12 /\ Len(c.provided.ascmc) >= 2
        IN  /\ c.outcome.kind = "return" <=> counted
            /\ c.outcome.kind = "return" =>
                   /\ Len(c.outcome.value.house_cusps) = 12
                   /\ \A i \in 1..12 :
                          /\ c.outcome.value.house_cusps[i].house = i
                          /\ c.outcome.value.house_cusps[i].degree = c.provided.cusps[i]

(***************************************************************************)
(* Natal chart engine: calculate_natal_chart.  The ephemeris answers with  *)
(* a sky: the ascendant it finds for (jd, lat, lon) and the ecliptic       *)
(* longitude of every body, in whole degrees.  A fault says, per body,     *)
(* whether its turn in the loop goes through ("ok"), swe.calc_ut raises    *)
(* ("fetch") or the classification of its longitude raises ("classify").   *)
(***************************************************************************)
\* PLANETS, in the order of the dict
PLANETS == <<"Sun", "Moon", "Mercury", "Venus", "Mars", "Jupiter", "Saturn", "Uranus",
             "Neptune", "Pluto", "North Node">>

\* a mutant of major_planets: the North Node takes part in the aspect scan
major_planets_with_node == PLANETS
\* major_planets
major_planets == <<"Sun", "Moon", "Mercury", "Venus", "Mars", "Jupiter", "Saturn", "Uranus",
                   "Neptune", "Pluto">>

Bodies == {PLANETS[k] : k \in DOMAIN PLANETS}

\* get_planet_position
GetPlanetPosition(longitude) ==
    LET info == DegreeToSignInfo(longitude)
    IN  [longitude |-> longitude, sign |-> info[1], degree_in_sign |-> info[2],
         formatted |-> Formatted(info)]

\* the planet_data of one body
PlanetData(planet_name, longitude, house_cusps) ==
    LET position == GetPlanetPosition(longitude)
        house == GetHouseForPlanet(position.longitude, house_cusps)
    IN  [name |-> planet_name, degree |-> position.longitude, sign |-> position.sign,
         degree_in_sign |-> position.degree_in_sign, house |-> house,
         formatted |-> position.formatted]

\* a mutant of AfterBodyError: the first failing body ends the loop
AfterBodyErrorBreak(k) == Len(PLANETS) + 1
\* except Exception: continue
AfterBodyError(k) == k + 1

\* the loop over PLANETS.items() from entry k on; acc holds planet_positions and
\* planet_longitudes as they stand
RECURSIVE PlanetLoop(_, _, _, _, _)
PlanetLoop(k, sky, fault, house_cusps, acc) ==
    IF k > Len(PLANETS) THEN acc
    ELSE LET planet_name == PLANETS[k]
         IN  IF fault[planet_name] # "ok"
             THEN PlanetLoop(AfterBodyError(k), sky, fault, house_cusps, acc)
             ELSE PlanetLoop(k + 1, sky, fault, house_cusps,
                    [planet_positions |->
                         Append(acc.planet_positions,
                                PlanetData(planet_name, sky.lon[planet_name], house_cusps)),
                     planet_longitudes |->
                         (planet_name :> sky.lon[planet_name]) @@ acc.planet_longitudes])

\* the index pairs (i, j) the two loops over major_planets visit: for every i in order,
\* every j of major_planets[i+1:] in order
LoopPairs ==
    LET n == Len(major_planets)
        grid == [k \in 1..(n * n) |-> <<((k - 1) \div n) + 1, ((k - 1) % n) + 1>>]
    IN  SelectSeq(grid, LAMBDA pr : pr[1] < pr[2])

\* the aspect of the pair, or None; a pair with a body missing from planet_longitudes
\* is passed over
PairAspect(pr, planet_longitudes) ==
    LET p1 == major_planets[pr[1]]
        p2 == major_planets[pr[2]]
    IN  IF p1 \notin DOMAIN planet_longitudes \/ p2 \notin DOMAIN planet_longitudes
        THEN None
        ELSE CalculateAspect(Milli(planet_longitudes[p1]), Milli(planet_longitudes[p2]))

\* the aspects list the two loops build
AspectLoop(planet_longitudes) ==
    LET found == SelectSeq(LoopPairs, LAMBDA pr : PairAspect(pr, planet_longitudes) # None)
    IN  [k \in 1..Len(found) |->
            LET aspect == PairAspect(found[k], planet_longitudes)
            IN  [planet1 |-> major_planets[found[k][1]],
                 planet2 |-> major_planets[found[k][2]],
                 type |-> aspect[1].type, angle |-> aspect[1].angle,
                 orb |-> aspect[1].orb, applying |-> aspect[1].applying]]

\* calculate_natal_chart as a function of its arguments and of the provider's answers
CalculateNatalChart(dt, lat, lon, tz_name, house_system, sky, fault, layout) ==
    LET jd == DatetimeToJulianDay(dt, tz_name)
    IN  IF jd.kind = "raise" THEN jd
        ELSE LET houses == CalculateHousesOutcome(sky.asc, house_system, layout)
             IN  IF houses.kind = "raise" THEN houses
                 ELSE LET houses_data1 == houses.value
                          bodies == PlanetLoop(1, sky, fault, houses_data1.house_cusps,
                                               [planet_positions |-> << >>,
                                                planet_longitudes |-> << >>])
                          aspects == AspectLoop(bodies.planet_longitudes)
                      IN  Returned(
                            [ascendant_degree |-> houses_data1.ascendant.degree,
                             ascendant_sign |-> houses_data1.ascendant.sign,
                             ascendant_formatted |-> houses_data1.ascendant.formatted,
                             midheaven_degree |-> houses_data1.midheaven.degree,
                             midheaven_sign |-> houses_data1.midheaven.sign,
                             midheaven_formatted |-> houses_data1.midheaven.formatted,
                             house_system |-> house_system,
                             house_cusps |-> houses_data1.house_cusps,
                             planet_positions |-> bodies.planet_positions,
                             aspects |-> aspects,
                             birth_info |-> [datetime |-> IsoFormat(dt), timezone |-> tz_name,
                                             latitude |-> lat, longitude |-> lon]])

(***************************************************************************)
(* SpecChart: calculate_natal_chart called directly, over three skies, the *)
(* faults of at most one body and of two pairs, and house-system and       *)
(* timezone names known and unknown.                                       *)
(***************************************************************************)
\* the Sun in aspect with eight bodies, every aspect type among them; the Node on the Sun
SkyAspected ==
    [asc |-> 95,
     lon |-> ("Sun" :> 10) @@ ("Moon" :> 190) @@ ("Mercury" :> 18) @@ ("Venus" :> 100) @@
             ("Mars" :> 130) @@ ("Jupiter" :> 70) @@ ("Saturn" :> 160) @@ ("Uranus" :> 40) @@
             ("Neptune" :> 250) @@ ("Pluto" :> 300) @@ ("North Node" :> 10)]
\* few aspects; the Node opposite the Sun
SkySparse ==
    [asc |-> 5,
     lon |-> ("Sun" :> 0) @@ ("Moon" :> 45) @@ ("Mercury" :> 15) @@ ("Venus" :> 341) @@
             ("Mars" :> 75) @@ ("Jupiter" :> 105) @@ ("Saturn" :> 135) @@ ("Uranus" :> 165) @@
             ("Neptune" :> 195) @@ ("Pluto" :> 225) @@ ("North Node" :> 180)]
\* bodies on both sides of 0/360
SkyWrapped ==
    [asc |-> 355,
     lon |-> ("Sun" :> 359) @@ ("Moon" :> 1) @@ ("Mercury" :> 350) @@ ("Venus" :> 9) @@
             ("Mars" :> 179) @@ ("Jupiter" :> 181) @@ ("Saturn" :> 89) @@ ("Uranus" :> 271) @@
             ("Neptune" :> 120) @@ ("Pluto" :> 240) @@ ("North Node" :> 0)]
Skies == {SkyAspected, SkySparse, SkyWrapped}

NoFault == [b \in Bodies |-> "ok"]
OneFault(b, kind) == [NoFault EXCEPT ![b] = kind]
Faults ==
    {NoFault}
    \cup {OneFault(b, kind) : b \in Bodies, kind \in {"fetch", "classify"}}
    \cup {[NoFault EXCEPT !["Sun"] = "fetch", !["Moon"] = "classify"],
          [NoFault EXCEPT !["Mercury"] = "classify", !["North Node"] = "fetch"]}

Failing(fault) == {b \in Bodies : fault[b] # "ok"}

BirthMoments == {[date |-> <<2024, 3, 1>>, hour |-> 0, tzinfo |-> None],
                 [date |-> <<9999, 12, 31>>, hour |-> 23, tzinfo |-> None]}
ChartZones == {"UTC", "Europe/Istanbul", "Mars/Olympus"}
ChartSystems == {"Placidus", "Whole Sign", "Topocentric"}
ChartLayouts == {CurrentLayout, Layout(11, 10)}
BirthLat == 41
BirthLon == 29

NatalChartCall(dt, tz_name, house_system, sky, fault, layout) ==
    /\ chart = << >>
    /\ chart' = <<[dt |-> dt, tz_name |-> tz_name, house_system |-> house_system,
                   sky |-> sky, fault |-> fault, layout |-> layout,
                   outcome |-> CalculateNatalChart(dt, BirthLat, BirthLon, tz_name,
                                                   house_system, sky, fault, layout)]>>
    /\ UNCHANGED <<now, heap, calc_cache, history, bulkOut, houses_data, planet_house,
                   aspectOut, retro, housesOut, jdOut, signOut, response, bodyVars, edgeVars>>

NextChart ==
    \E dt \in BirthMoments, tz_name \in ChartZones, house_system \in ChartSystems,
       sky \in Skies, fault \in Faults, layout \in ChartLayouts :
        NatalChartCall(dt, tz_name, house_system, sky, fault, layout)

SpecChart == Init /\ [][NextChart]_vars

(***************************************************************************)
(* Properties of calculate_natal_chart (SpecChart)                         *)
(***************************************************************************)
Names(planet_positions) == {planet_positions[i].name : i \in DOMAIN planet_positions}
Without(seq, Test(_)) == SelectSeq(seq, LAMBDA x : ~Test(x))

\* C12: when the turn of exactly one body raises, the chart is still returned; that
\* body is in no entry of planet_positions and in no aspect; the entries of the other
\* bodies and the aspects between them are those of the chart computed from the same
\* arguments and the same sky with no failure, in the same order.
C12_OneBodyOmitted ==
    (chart # << >> /\ Cardinality(Failing(chart[1].fault)) = 1) =>
        LET c == chart[1]
            b == CHOOSE x \in Bodies : c.fault[x] # "ok"
            clean == CalculateNatalChart(c.dt, BirthLat, BirthLon, c.tz_name,
                                         c.house_system, c.sky, NoFault, c.layout)
        IN  /\ c.outcome.kind = clean.kind
            /\ c.outcome.kind = "return" =>
                   LET got == c.outcome.value
                       IsB(e) == e.name = b
                       HasB(a) == a.planet1 = b \/ a.planet2 = b
                   IN  /\ b \notin Names(got.planet_positions)
                       /\ \A i \in DOMAIN got.aspects : ~HasB(got.aspects[i])
                       /\ got.planet_positions = Without(clean.value.planet_positions, IsB)
                       /\ got.aspects = Without(clean.value.aspects, HasB)
                       /\ [got EXCEPT !.planet_positions = << >>, !.aspects = << >>]
                            = [clean.value EXCEPT !.planet_positions = << >>,
                                                  !.aspects = << >>]

\* the Sun failed in a sky where it has an aspect with eight other bodies: the chart
\* came back with the ten other bodies and without the Sun's eight aspects
C12_Witness ==
    /\ chart # << >>
    /\ chart[1].sky = SkyAspected
    /\ chart[1].fault = OneFault("Sun", "fetch")
    /\ chart[1].outcome.kind = "return"
    /\ Len(chart[1].outcome.value.planet_positions) = 10
    /\ Len(chart[1].outcome.value.aspects) > 0
    /\ Len(chart[1].outcome.value.aspects) + 8
          = Len(CalculateNatalChart(chart[1].dt, BirthLat, BirthLon, chart[1].tz_name,
                                     chart[1].house_system, chart[1].sky, NoFault,
                                     chart[1].layout).value.aspects)

\* the ten major bodies in their fixed order, Sun to Pluto
SunToPluto == <<"Sun", "Moon", "Mercury", "Venus", "Mars", "Jupiter", "Saturn", "Uranus",
                "Neptune", "Pluto">>
Rank(name) == CHOOSE k \in DOMAIN SunToPluto : SunToPluto[k] = name

\* C13: every entry of aspects joins two computed major bodies, planet1 before planet2
\* in the order Sun..Pluto; no pair is listed twice; a pair of computed major bodies is
\* listed if and only if calculate_aspect on their longitudes is not None, and then with
\* that aspect; the North Node is in no aspect.
C13_AspectsOverMajorPairs ==
    (chart # << >> /\ chart[1].outcome.kind = "return") =>
        LET c == chart[1]
            A == c.outcome.value.aspects
            major == {SunToPluto[k] : k \in DOMAIN SunToPluto}
            computed == major \cap Names(c.outcome.value.planet_positions)
            AspectOf(p1, p2) == CalculateAspect(Milli(c.sky.lon[p1]), Milli(c.sky.lon[p2]))
        IN  /\ \A k \in DOMAIN A :
                   /\ A[k].planet1 \in computed
                   /\ A[k].planet2 \in computed
                   /\ Rank(A[k].planet1) < Rank(A[k].planet2)
                   /\ A[k].planet1 # "North Node" /\ A[k].planet2 # "North Node"
            /\ \A k, l \in DOMAIN A :
                   (A[k].planet1 = A[l].planet1 /\ A[k].planet2 = A[l].planet2) => k = l
            /\ \A p1, p2 \in computed :
                   Rank(p1) < Rank(p2) =>
                       LET listed == {k \in DOMAIN A : A[k].planet1 = p1 /\ A[k].planet2 = p2}
                       IN  /\ listed # {} <=> AspectOf(p1, p2) # None
                           /\ \A k \in listed :
                                  /\ A[k].type = AspectOf(p1, p2)[1].type
                                  /\ A[k].angle = AspectOf(p1, p2)[1].angle
                                  /\ A[k].orb = AspectOf(p1, p2)[1].orb

\* a chart of all eleven bodies in which the Node stands on the Sun, within the orb of
\* the aspects the Sun has, and in which some pairs of major bodies have no aspect
C13_Witness ==
    /\ chart # << >>
    /\ chart[1].outcome.kind = "return"
    /\ chart[1].fault = NoFault
    /\ "North Node" \in Names(chart[1].outcome.value.planet_positions)
    /\ chart[1].sky.lon["North Node"] = chart[1].sky.lon["Sun"]
    /\ Len(chart[1].outcome.value.aspects) > 8
    /\ Len(chart[1].outcome.value.aspects) < 45

\* the house systems calculate_houses knows
SixSystems == {"Placidus", "Koch", "Whole Sign", "Equal", "Campanus", "Regiomontanus"}

\* C15: called with a house-system name outside the six known names, the core raises
\* instead of returning cusps, so the house_system field of a returned chart names the
\* system whose cusps the chart holds.
C15_UnknownSystemRaises ==
    chart # << >> =>
        LET c == chart[1]
        IN  /\ c.house_system \notin SixSystems => c.outcome.kind = "raise"
            /\ c.outcome.kind = "return" =>
                   /\ c.outcome.value.house_system \in SixSystems
                   /\ c.outcome.value.house_cusps =
                          HouseCuspsOf(SweHouses(c.sky.asc,
                                                 HOUSE_SYSTEMS[c.outcome.value.house_system]).cusps)

(***************************************************************************)
(* The HTTP boundary: POST /natal-chart (api/astrology.py).  The text of   *)
(* request.datetime either has the format "%Y-%m-%d %H:%M:%S", and then    *)
(* names a moment, or it has not.  An HTTPException in flight is an        *)
(* outcome of kind "http" with its status code and detail; it is an        *)
(* Exception, and no ValueError.                                           *)
(***************************************************************************)
HTTPException(status_code, detail) ==
    [kind |-> "http", status_code |-> status_code, detail |-> detail]

\* datetime.strptime(request.datetime, "%Y-%m-%d %H:%M:%S")
Strptime(text) ==
    IF text.wellformed THEN Returned(text.moment) ELSE Raises("ValueError")

\* str(e) of an exception in flight
StrOf(outcome) ==
    IF outcome.kind = "http" THEN <<outcome.status_code, outcome.detail>>
    ELSE <<outcome.error>>

\* the body of the outer try block, up to the first exception
NatalChartBody(request, sky, fault, layout) ==
    LET dt == Strptime(request.datetime)
    IN  IF dt.kind = "raise" THEN dt
        ELSE IF PytzTimezone(request.tz_name).kind = "raise"
        THEN HTTPException(400, <<"Invalid timezone", request.tz_name>>)
        ELSE IF request.house_system \notin DOMAIN HOUSE_SYSTEMS
        THEN HTTPException(400, <<"Invalid house system. Choose from", DOMAIN HOUSE_SYSTEMS>>)
        ELSE CalculateNatalChart(dt.value, request.lat, request.lon, request.tz_name,
                                 request.house_system, sky, fault, layout)

\* calculate_natal_chart is reached when the three checks before it pass
CoreInvoked(request) ==
    /\ Strptime(request.datetime).kind = "return"
    /\ PytzTimezone(request.tz_name).kind = "return"
    /\ request.house_system \in DOMAIN HOUSE_SYSTEMS

\* except ValueError ... except Exception ...: what leaves the handler
NatalChartHandlers(outcome) ==
    IF outcome.kind = "return" THEN outcome
    ELSE IF outcome.kind = "raise" /\ outcome.error = "ValueError"
    THEN HTTPException(400, StrOf(outcome))
    ELSE HTTPException(500, <<"Calculation error", StrOf(outcome)>>)

\* the response the framework sends for what leaves the handler
ResponseOf(outcome) ==
    IF outcome.kind = "return"
    THEN [status_code |-> 200, detail |-> None, body |-> Some(outcome.value)]
    ELSE [status_code |-> outcome.status_code, detail |-> Some(outcome.detail),
          body |-> None]

\* get_natal_chart
GetNatalChart(request, sky, fault, layout) ==
    /\ response = << >>
    /\ response' =
          <<[request |-> request,
             answer |-> ResponseOf(NatalChartHandlers(
                                     NatalChartBody(request, sky, fault, layout)))]>>
    /\ chart' =
          IF CoreInvoked(request)
          THEN <<[dt |-> request.datetime.moment, tz_name |-> request.tz_name,
                  house_system |-> request.house_system,
                  sky |-> sky, fault |-> fault, layout |-> layout,
                  outcome |-> CalculateNatalChart(request.datetime.moment, request.lat,
                                                  request.lon, request.tz_name,
                                                  request.house_system, sky, fault,
                                                  layout)]>>
          ELSE chart
    /\ UNCHANGED <<now, heap, calc_cache, history, bulkOut, houses_data, planet_house,
                   aspectOut, retro, housesOut, jdOut, signOut, bodyVars, edgeVars>>

\* the requests tried
DatetimeTexts ==
    {[wellformed |-> TRUE, moment |-> m] : m \in BirthMoments}
    \cup {[wellformed |-> FALSE, moment |-> [date |-> <<2024, 3, 1>>, hour |-> 0,
                                              tzinfo |-> None]]}
Requests ==
    {[datetime |-> t, lat |-> BirthLat, lon |-> BirthLon, tz_name |-> z, house_system |-> h] :
        t \in DatetimeTexts, z \in ChartZones, h \in ChartSystems \cup {"Koch"}}
ApiFaults == {NoFault, OneFault("Moon", "fetch"), OneFault("North Node", "classify")}

NextApi ==
    \E request \in Requests, sky \in Skies, fault \in ApiFaults, layout \in ChartLayouts :
        GetNatalChart(request, sky, fault, layout)

SpecApi == Init /\ [][NextApi]_vars

\* C14: a POST /natal-chart request (with a well-formed datetime) whose timezone name
\* is unrecognized, or whose house system is not one of the six known names, is
\* answered with status 400 and the validation message, and calculate_natal_chart is
\* not invoked.
C14_InvalidInputIs400 ==
    (response # << >> /\ response[1].request.datetime.wellformed) =>
        LET r == response[1].request
            a == response[1].answer
            badZone == r.tz_name \notin DOMAIN TimeZones
            badSystem == r.house_system \notin SixSystems
        IN  (badZone \/ badSystem) =>
                /\ chart = << >>
                /\ a.status_code = 400
                /\ a.detail # None
                /\ a.detail[1][1] \in {"Invalid timezone", "Invalid house system. Choose from"}

(***************************************************************************)
(* Position engine: Sun, Moon and planets.  The ephemeris file gives the   *)
(* place of a body at a time; it is represented by a right ascension and a *)
(* declination per body and time, fed to the same alt-az stand-in as the   *)
(* stars.  A lookup eph[name] ends "ok", with KeyError when the file has   *)
(* no such body ("missing"), or the observation ends with an error of      *)
(* another type when the file does not cover the time ("range").           *)
(***************************************************************************)
\* planets_info, in the order of the dict
PlanetNames == <<"mercury", "venus", "mars", "jupiter", "saturn", "uranus", "neptune",
                 "pluto">>
PlanetMagnitude ==
    ("mercury" :> 0) @@ ("venus" :> -4) @@ ("mars" :> 1) @@ ("jupiter" :> -2) @@
    ("saturn" :> 1) @@ ("uranus" :> 6) @@ ("neptune" :> 8) @@ ("pluto" :> 14)
PlanetColor ==
    ("mercury" :> "lightgray") @@ ("venus" :> "lightyellow") @@ ("mars" :> "orangered") @@
    ("jupiter" :> "wheat") @@ ("saturn" :> "khaki") @@ ("uranus" :> "lightblue") @@
    ("neptune" :> "cornflowerblue") @@ ("pluto" :> "slategray")
PlanetSet == {PlanetNames[k] : k \in DOMAIN PlanetNames}

\* where the ephemeris puts a body at time t
BodyOrdinal(body) ==
    IF body = "sun" THEN 0 ELSE IF body = "moon" THEN 9
    ELSE CHOOSE k \in DOMAIN PlanetNames : PlanetNames[k] = body
EphRaDec(body, t) ==
    LET k == BodyOrdinal(body)
    IN  [ra_hours |-> (3 * (k \div 2) + 2 * t) % 24,
         dec |-> IF k < 2 THEN 0 ELSE 4 * k - 20]

\* location.at(t).observe(body).apparent().altaz('standard')
BodyAltAz(body, ob, t) ==
    LET place == EphRaDec(body, t)
    IN  SkyfieldAltAz(place.ra_hours, place.dec, ob, t)

\* almanac.fraction_illuminated(eph, 'moon', t), in percent
FractionIlluminated(t) == (25 * t) % 101

\* the dict returned by calculate_sun_moon_positions
SunMoonPositions(ob, clock) ==
    LET t == ObservationTime(ob, clock)
        sun == BodyAltAz("sun", ob, t)
        moon == BodyAltAz("moon", ob, t)
    IN  [sun |-> [altitude |-> sun.alt, azimuth |-> sun.az,
                  is_visible |-> sun.alt > min_altitude],
         moon |-> [altitude |-> moon.alt, azimuth |-> moon.az,
                   is_visible |-> moon.alt > min_altitude,
                   illumination |-> FractionIlluminated(t)]]

CalculateSunMoonPositions(ob) ==
    /\ sunMoonOut = << >>
    /\ sunMoonOut' = <<[observer |-> ob, result |-> SunMoonPositions(ob, now)]>>
    /\ UNCHANGED <<now, heap, calc_cache, history, bulkOut, houses_data, planet_house,
                   aspectOut, retro, chartVars, planetsOut, edgeVars>>

\* planet_name.capitalize()
Capitalize(planet_name) == <<"capitalized", planet_name>>

\* a mutant of PlanetVisible: the threshold itself counts as visible
PlanetVisibleInclusive(altitude) == altitude >= min_altitude
\* alt.degrees > settings.min_altitude
PlanetVisible(altitude) == altitude > min_altitude

\* the entry written to planets[planet_name]
PlanetEntry(planet_name, ob, t) ==
    LET aa == BodyAltAz(planet_name, ob, t)
    IN  [name |-> Capitalize(planet_name), altitude |-> aa.alt, azimuth |-> aa.az,
         is_visible |-> PlanetVisible(aa.alt),
         magnitude |-> PlanetMagnitude[planet_name], color |-> PlanetColor[planet_name]]

\* a mutant of AfterKeyError: the first missing planet ends the loop
AfterKeyErrorBreak(k) == Len(PlanetNames) + 1
\* except KeyError: continue
AfterKeyError(k) == k + 1

\* the loop over planets_info.items() from entry k on; an error that is no KeyError
\* leaves the loop and the function
RECURSIVE PlanetsLoop(_, _, _, _, _)
PlanetsLoop(k, ob, t, lookup, planets) ==
    IF k > Len(PlanetNames) THEN Returned(planets)
    ELSE LET planet_name == PlanetNames[k]
         IN  IF lookup[planet_name] = "missing"
             THEN PlanetsLoop(AfterKeyError(k), ob, t, lookup, planets)
             ELSE IF lookup[planet_name] = "range"
             THEN Raises("EphemerisRangeError")
             ELSE PlanetsLoop(k + 1, ob, t, lookup,
                              (planet_name :> PlanetEntry(planet_name, ob, t)) @@ planets)

\* calculate_planets_positions
PlanetsPositions(ob, clock, lookup) ==
    PlanetsLoop(1, ob, ObservationTime(ob, clock), lookup, << >>)

CalculatePlanetsPositions(ob, lookup) ==
    /\ planetsOut = << >>
    /\ planetsOut' = <<[observer |-> ob, lookup |-> lookup,
                        outcome |-> PlanetsPositions(ob, now, lookup)]>>
    /\ UNCHANGED <<now, heap, calc_cache, history, bulkOut, houses_data, planet_house,
                   aspectOut, retro, chartVars, sunMoonOut, edgeVars>>

(***************************************************************************)
(* SpecPlanets: calculate_planets_positions over every set of planets the  *)
(* ephemeris file may lack, and over files that do not cover the time.     *)
(***************************************************************************)
AllFound == [n \in PlanetSet |-> "ok"]
Lacking(missing) == [n \in PlanetSet |-> IF n \in missing THEN "missing" ELSE "ok"]
Lookups ==
    {Lacking(missing) : missing \in SUBSET PlanetSet}
    \cup {[Lacking(missing) EXCEPT !["saturn"] = "range"] : missing \in {{}, {"mars"}, {"pluto"}}}

\* an observer at latitude 41 with the clock at 0
ObserverOn(longitude) ==
    [latitude |-> 41, longitude |-> longitude, elevation |-> 0, datetime_utc |-> Some(0)]
HorizonObservers == {ObserverOn(88), ObserverOn(91)}

NextPlanets ==
    \E ob \in HorizonObservers \cup {ObserverAt(None)}, lookup \in Lookups :
        CalculatePlanetsPositions(ob, lookup)

SpecPlanets == Init /\ [][NextPlanets]_vars

\* the eight planets
EightPlanets == {"mercury", "venus", "mars", "jupiter", "saturn", "uranus", "neptune",
                 "pluto"}

\* C20: when the only failures are lookups that end with a missing-key error, no error
\* reaches the caller and the returned mapping has an entry for exactly the planets
\* whose lookup did not fail, each the entry computed for that planet.
C20_MissingPlanetsSkipped ==
    (planetsOut # << >>
       /\ \A n \in EightPlanets : planetsOut[1].lookup[n] \in {"ok", "missing"}) =>
        LET c == planetsOut[1]
            missing == {n \in EightPlanets : c.lookup[n] = "missing"}
        IN  /\ c.outcome.kind = "return"
            /\ DOMAIN c.outcome.value = EightPlanets \ missing
            /\ \A n \in EightPlanets \ missing :
                   /\ c.outcome.value[n].name = Capitalize(n)
                   /\ c.outcome.value[n] =
                          PlanetEntry(n, c.observer, ObservationTime(c.observer, now))

\* the file lacks the first planet and two later ones; the five others are returned
C20_Witness ==
    /\ planetsOut # << >>
    /\ planetsOut[1].lookup = Lacking({"mercury", "mars", "pluto"})
    /\ planetsOut[1].outcome.kind = "return"
    /\ DOMAIN planetsOut[1].outcome.value = {"venus", "jupiter", "saturn", "uranus", "neptune"}

(***************************************************************************)
(* SpecSky: every path that reports a visibility flag, for observers who   *)
(* see a body on the celestial equator just above, on and just below the   *)
(* altitude threshold.                                                     *)
(***************************************************************************)
EquinoxStar == [ra_hours |-> 0, dec_degrees |-> 0, magnitude |-> 2,
                name |-> "Equinox", hip_id |-> None, parallax_mas |-> None]
SkyObservers == {ObserverOn(88), ObserverOn(90), ObserverOn(91)}
SkyBatch == <<StarTuple(EquinoxStar), StarTuple(Vega)>>
SkyLookups == {AllFound, Lacking({"venus"})}

SkyStarCall == \E ob \in SkyObservers : CalculateStarPosition(EquinoxStar, ob)
SkyBatchCall == \E ob \in SkyObservers : CalculateBulkPositions(SkyBatch, ob)
SkySunMoonCall == \E ob \in SkyObservers : CalculateSunMoonPositions(ob)
SkyPlanetsCall == \E ob \in SkyObservers, lookup \in SkyLookups :
                      CalculatePlanetsPositions(ob, lookup)

NextSky == SkyStarCall \/ SkyBatchCall \/ SkySunMoonCall \/ SkyPlanetsCall

SpecSky == Init /\ [][NextSky]_vars

\* the flag is true exactly when the reported altitude is greater than the minimum
StrictlyAbove(entry) == entry.is_visible <=> entry.altitude > min_altitude

ParallaxDistance(tg) ==
    IF tg.parallax_mas = None THEN None
    ELSE IF tg.parallax_mas[1] > 0 THEN Some(1000 \div tg.parallax_mas[1]) ELSE None

\* C21: every result of calculate_star_position has distance = 1000 / parallax_mas for
\* the parallax_mas passed to that very call when it is positive, and no distance when
\* it is absent or not positive, whatever calls came before.
C21_DistanceFromOwnParallax ==
    \A i \in DOMAIN history : history[i].ret.distance = ParallaxDistance(history[i].target)

\* the geometry of the call's own time: what Skyfield answers for the observer's instant
\* or, without one, for the clock reading of the call
OwnTimeGeometry(h) ==
    SkyfieldAltAz(h.target.ra_hours, h.target.dec_degrees, h.observer,
                  IF h.observer.datetime_utc = None THEN h.time ELSE h.observer.datetime_utc[1])

\* C28: a call whose observer carries no instant returns the altitude and azimuth of
\* the current time of that call, never those computed for an earlier call.
C28_NowMeansCallTime ==
    \A i \in DOMAIN history :
        history[i].observer.datetime_utc = None =>
            /\ history[i].ret.altitude = OwnTimeGeometry(history[i]).alt
            /\ history[i].ret.azimuth = OwnTimeGeometry(history[i]).az

\* the keys the cache holds, expired or not
CachedKeys == {calc_cache[i].key : i \in DOMAIN calc_cache}

\* C25: after any sequence of calls the cache holds at most maxsize entries and at most
\* one entry per key.
C25_CacheBounded ==
    /\ Len(calc_cache) <= MaxSize
    /\ Cardinality(CachedKeys) = Len(calc_cache)

\* the cache is full, and a call for a key that was not cached has put its entry in
\* the place of the least recently used one
C25_Witness ==
    /\ Len(calc_cache) = MaxSize
    /\ \E i \in DOMAIN history :
           /\ ~history[i].hit
           /\ history[i].evicted # {}
           /\ history[i].key \in CachedKeys

(***************************************************************************)
(* The aspect windows (SpecAspect)                                         *)
(***************************************************************************)
\* the window [angle - orb, angle + orb] of definition k, cut to separations in [0, 180]
WindowLow(k) == IF ASPECTS[k].angle - ASPECTS[k].orb < 0 THEN 0
                ELSE ASPECTS[k].angle - ASPECTS[k].orb
WindowHigh(k) == Min(ASPECTS[k].angle + ASPECTS[k].orb, 180)

\* the definitions whose test accepts the separation of the two longitudes
Matching(angle1, angle2) ==
    {k \in DOMAIN ASPECTS : WithinOrb(AngularDistance(angle1, angle2), ASPECTS[k])}

\* C27: the seven windows are pairwise disjoint on [0, 180]; for a pair of longitudes
\* at most one definition matches, and calculate_aspect returns that definition (None
\* when there is none), which is what checking the definitions in any other order
\* returns.
C27_WindowsDisjoint ==
    /\ Len(ASPECTS) = 7
    /\ \A j, k \in DOMAIN ASPECTS :
           j # k => (WindowHigh(j) < WindowLow(k) \/ WindowHigh(k) < WindowLow(j))
    /\ aspectOut # << >> =>
           LET m == Matching(aspectOut[1].angle1, aspectOut[1].angle2)
               r == aspectOut[1].result
           IN  /\ Cardinality(m) <= 1
               /\ m = {} <=> r = None
               /\ \A k \in m : r # None /\ r[1].type = ASPECTS[k].name
                                        /\ r[1].angle = ASPECTS[k].angle

\* a Quincunx found on the edge of its window, the window nearest to its neighbours
\* (Trine ends at 128, Opposition begins at 170)
C27_Witness ==
    /\ aspectOut # << >>
    /\ aspectOut[1].result # None
    /\ aspectOut[1].result[1].type = "Quincunx"
    /\ aspectOut[1].result[1].orb = 300
    /\ AngularDistance(aspectOut[1].angle1, aspectOut[1].angle2) = Milli(153)

(***************************************************************************)
(* SpecCusps: get_house_for_planet on cusp lists of any shape, not only    *)
(* those calculate_houses builds: lists over two degrees (the two          *)
(* all-equal lists among them), and the rotations of an irregular list     *)
(* that crosses 0/360 several times and repeats a degree.                  *)
(***************************************************************************)
TwoDegreeLists == [1..12 -> {10, 200}] \cup [1..12 -> {0, 359}]
Irregular == <<350, 20, 50, 10, 300, 100, 100, 40, 359, 0, 180, 90>>
Rotations == {[i \in 1..12 |-> Irregular[((i + r - 1) % 12) + 1]] : r \in 0..11}
CuspLists == TwoDegreeLists \cup Rotations
\* longitudes at, next to and between the cusps, and values outside [0, 360)
ProbeLongitudes == {-1, 0, 5, 10, 11, 95, 199, 200, 201, 359, 360, 400}

\* one lookup: the list, the longitude and the house returned
HouseLookup(planet_longitude, cusps) ==
    /\ planet_house = << >>
    /\ planet_house' =
           <<[longitude |-> planet_longitude,
              house_cusps |-> HouseCuspsOf(cusps),
              house |-> GetHouseForPlanet(planet_longitude, HouseCuspsOf(cusps))]>>
    /\ UNCHANGED <<now, heap, calc_cache, history, bulkOut, houses_data, aspectOut, retro,
                   chartVars, bodyVars, edgeVars>>

\* one lookup per behaviour; the test comes first so that a behaviour that has made its
\* lookup is not asked about every list again
NextCusps == /\ planet_house = << >>
             /\ \E lon \in ProbeLongitudes, cusps \in CuspLists : HouseLookup(lon, cusps)

SpecCusps == Init /\ [][NextCusps]_vars

AllEqual(house_cusps) == \A i \in 1..12 : house_cusps[i].degree = house_cusps[1].degree

\* the houses whose membership test the longitude satisfies
Holders(lon, house_cusps) == {i \in 1..12 : Member(i, lon, house_cusps)}

\* C26: for 12 cusp degrees that are not all equal, every longitude satisfies the
\* membership test of at least one house, and the house returned is one whose test it
\* satisfies: the default return of 1 is not reached.
C26_FallbackOnlyDegenerate ==
    (planet_house # << >> /\ ~AllEqual(planet_house[1].house_cusps)) =>
        /\ Holders(planet_house[1].longitude, planet_house[1].house_cusps) # {}
        /\ planet_house[1].house \in
               Holders(planet_house[1].longitude, planet_house[1].house_cusps)

\* a list that is not well-formed (it repeats a cusp, so some houses are empty), and a
\* longitude beyond 360 that only the twelfth house, the last one tested, holds
C26_Witness ==
    /\ planet_house # << >>
    /\ planet_house[1].longitude >= 360
    /\ LET hc == planet_house[1].house_cusps
       IN  /\ \E i \in 1..12 : hc[i].degree = hc[NextCusp(i)].degree
           /\ ~AllEqual(hc)
           /\ Holders(planet_house[1].longitude, hc) = {12}
           /\ planet_house[1].house = 12

(***************************************************************************)
(* SpecScan: find_retrograde_periods over every range of SpecRetro and     *)
(* over ranges whose start lies one, two or three days after their end.    *)
(* The loop is straight-line code of one thread: an iteration that can be  *)
(* taken is taken, and so is the return.                                   *)
(***************************************************************************)
\* end_date = start_date - gap days: no day lies in the range, no speed is asked for
BackwardEnter == \E start_date \in StartDates, gap \in 1..3 :
                     RetroCall(start_date, 1 - gap, << >>)

NextScan == RetroEnter \/ BackwardEnter \/ RetroStep \/ RetroReturn

SpecScan == Init /\ [][NextScan]_vars /\ WF_vars(RetroStep) /\ WF_vars(RetroReturn)

\* the calendar days from start_date through end_date, counted on the calendar: 0 when
\* start_date is after end_date
RangeDays(f) ==
    IF \E k \in 0..(MaxDays + 1) : DayPlus(f.start_date, k) = f.end_date
    THEN 1 + CHOOSE k \in 0..(MaxDays + 1) : DayPlus(f.start_date, k) = f.end_date
    ELSE 0

\* while the loop runs, the days sampled so far are the first days of the range and the
\* next one to sample is the calendar day that follows them; once the call has
\* returned, every day of the range was sampled once, and nothing for an empty range
ScanInStep ==
    retro # << >> =>
        LET f == retro[1]
        IN  /\ f.samples <= RangeDays(f)
            /\ RevJul(f.jd) = DayPlus(f.start_date, f.samples)
            /\ f.pc = "done" =>
                  /\ f.samples = RangeDays(f)
                  /\ RangeDays(f) = 0 => f.retrograde_periods = << >>

SunLongitude(jd2) == ((jd2 - 1) \div 2) % 360
MoonLongitude(jd2, elongation, jd_start) ==
    (SunLongitude(jd2) + elongation + 12 * ((jd2 - jd_start) \div 2)) % 360

\* the lunation test of one day: the event appended, if any
LunationEvent(jd2, elongation, jd_start) ==
    LET sun_lon == SunLongitude(jd2)
        moon_lon == MoonLongitude(jd2, elongation, jd_start)
        apart == Abs(moon_lon - sun_lon)
        diff == IF apart > 180 THEN 360 - apart ELSE apart
    IN  IF diff < 2
        THEN <<[date |-> FormatDate(RevJul(jd2)), event |-> "New Moon",
                description |-> <<"New Moon in", DegreeToSignInfo(sun_lon)[1]>>]>>
        ELSE IF 178 < diff /\ diff < 182
        THEN <<[date |-> FormatDate(RevJul(jd2)), event |-> "Full Moon",
                description |-> <<"Full Moon - Moon in", DegreeToSignInfo(moon_lon)[1],
                                  "Sun in", DegreeToSignInfo(sun_lon)[1]>>]>>
        ELSE << >>

\* "while jd <= jd_end" over the days of the range, from day jd2 on
RECURSIVE LunationLoop(_, _, _, _)
LunationLoop(jd2, jd_end, elongation, jd_start) ==
    IF jd2 > jd_end THEN << >>
    ELSE LunationEvent(jd2, elongation, jd_start)
         \o LunationLoop(jd2 + 2, jd_end, elongation, jd_start)

\* the two events appended for each retrograde period
RECURSIVE RetrogradeEvents(_)
RetrogradeEvents(periods) ==
    IF periods = << >> THEN << >>
    ELSE <<[date |-> Head(periods).start_date, event |-> "Mercury Retrograde Starts",
            description |-> <<"Mercury begins retrograde motion">>],
           [date |-> Head(periods).end_date, event |-> "Mercury Retrograde Ends",
            description |-> <<"Mercury resumes direct motion">>]>>
         \o RetrogradeEvents(Tail(periods))

\* the order of the date strings (years of equal width)
DateBefore(a, b) ==
    \/ a[1] < b[1]
    \/ a[1] = b[1] /\ a[2] < b[2]
    \/ a[1] = b[1] /\ a[2] = b[2] /\ a[3] < b[3]

\* events.sort(key=lambda x: x["date"]): stable, an event goes behind those of its date
RECURSIVE SortByDate(_)
SortByDate(events) ==
    IF events = << >> THEN << >>
    ELSE LET sorted == SortByDate(SubSeq(events, 1, Len(events) - 1))
             last == events[Len(events)]
             ahead == SelectSeq(sorted, LAMBDA e : ~DateBefore(last.date, e.date))
             behind == SelectSeq(sorted, LAMBDA e : DateBefore(last.date, e.date))
         IN  ahead \o <<last>> \o behind

\* the body of the try block, up to the first exception
TransitDatesBody(start_date, end_date, speeds, elongation) ==
    LET start_dt == Strptime(start_date)
        end_dt == Strptime(end_date)
    IN  IF start_dt.kind = "raise" THEN start_dt
        ELSE IF end_dt.kind = "raise" THEN end_dt
        ELSE IF JulDay2(start_dt.value) >= JulDay2(end_dt.value)
        THEN HTTPException(400, "Start date must be before end date")
        ELSE Returned(SortByDate(
                 RetrogradeEvents(FindRetrogradePeriods(start_dt.value, speeds))
                 \o LunationLoop(JulDay2(start_dt.value), JulDay2(end_dt.value),
                                 elongation, JulDay2(start_dt.value))))

\* the days the two scans sample: none unless the three checks before them pass
DaysScanned(start_date, end_date) ==
    IF /\ Strptime(start_date).kind = "return"
       /\ Strptime(end_date).kind = "return"
       /\ JulDay2(start_date.moment) < JulDay2(end_date.moment)
    THEN (JulDay2(end_date.moment) - JulDay2(start_date.moment)) \div 2 + 1
    ELSE 0

\* except ValueError ... except Exception ...: what leaves the handler
TransitHandlers(outcome) ==
    IF outcome.kind = "return" THEN outcome
    ELSE IF outcome.kind = "raise" /\ outcome.error = "ValueError"
    THEN HTTPException(400, StrOf(outcome))
    ELSE HTTPException(500, <<"Calculation error", StrOf(outcome)>>)

\* get_transit_dates
GetTransitDates(start_date, end_date, speeds, elongation) ==
    /\ response = << >>
    /\ response' =
          <<[request |-> [start_date |-> start_date, end_date |-> end_date],
             speeds |-> speeds, elongation |-> elongation,
             scanned |-> DaysScanned(start_date, end_date),
             answer |-> ResponseOf(TransitHandlers(
                            TransitDatesBody(start_date, end_date, speeds, elongation)))]>>
    /\ UNCHANGED <<now, heap, calc_cache, history, bulkOut, houses_data, planet_house,
                   aspectOut, retro, housesOut, jdOut, signOut, chart, bodyVars, edgeVars>>

\* the requests tried: days around the leap day, and a text that is no date
TransitDays == {<<2024, 2, 27>>, <<2024, 2, 29>>, <<2024, 3, 2>>}
DateTexts == {[wellformed |-> TRUE, moment |-> d] : d \in TransitDays}
             \cup {[wellformed |-> FALSE, moment |-> <<2024, 2, 30>>]}
Elongations == {0, 90, 156, 345}

NextTransit ==
    /\ response = << >>
    /\ \E start_date \in DateTexts, end_date \in DateTexts, elongation \in Elongations :
          \E speeds \in SpeedSeries(DaysScanned(start_date, end_date)) :
              GetTransitDates(start_date, end_date, speeds, elongation)

SpecTransit == Init /\ [][NextTransit]_vars

\* C29: GET /transit-dates with a start date that is not strictly before the end date
\* is answered with status 400 and the message "Start date must be before end date",
\* without scanning any day; a malformed date string is likewise answered with 400.
C29_BadRangeIs400 ==
    response # << >> =>
        LET r == response[1].request
            a == response[1].answer
        IN  /\ (~r.start_date.wellformed \/ ~r.end_date.wellformed) => a.status_code = 400
            /\ (/\ r.start_date.wellformed /\ r.end_date.wellformed
                /\ ~DateBefore(r.start_date.moment, r.end_date.moment)) =>
                   /\ response[1].scanned = 0
                   /\ a.status_code = 400
                   /\ a.detail = Some("Start date must be before end date")

(***************************************************************************)
(* SpecRange: the ranges of the reported coordinates.  The batch path      *)
(* normalises its azimuth itself, with the float operator %: the angle     *)
(* that arctan2 and rad2deg hand to it is a float between -180 and 180     *)
(* degrees, here a number of float units (see Precision).  Observers and   *)
(* targets reach the poles and the zenith.                                 *)
(***************************************************************************)
\* azimuth_deg = np.rad2deg(azimuth_rad) % 360.0
BulkAzimuthFloat(az_deg) == FloatMod(az_deg, Deg(360))

\* the normalisation applied to one angle
NormaliseAzimuth(az_deg) ==
    /\ azOut = << >>
    /\ azOut' = <<[az_deg |-> az_deg, azimuth |-> BulkAzimuthFloat(az_deg)]>>
    /\ UNCHANGED <<now, heap, calc_cache, history, bulkOut, houses_data, planet_house,
                   aspectOut, retro, chartVars, bodyVars, calls>>

\* what arctan2 can hand over: every whole degree, and the floats next to zero
ArcTangents == {Deg(d) : d \in -180..180} \cup {-3, -2, -1, 1, 2, 3}

PoleStar == [ra_hours |-> 3, dec_degrees |-> 90, magnitude |-> 2,
             name |-> "Polaris", hip_id |-> Some(11767), parallax_mas |-> Some(8)]
SouthStar == [ra_hours |-> 21, dec_degrees |-> -90, magnitude |-> 5,
              name |-> "", hip_id |-> None, parallax_mas |-> None]
RangeTargets == {PoleStar, SouthStar, Sirius, Vega, EquinoxStar}
RangeObservers ==
    {[latitude |-> lat, longitude |-> lon, elevation |-> 0, datetime_utc |-> Some(1)] :
        lat \in {-90, -17, 0, 39, 90}, lon \in {-180, 0, 88, 180}}

\* one call per behaviour
RangeIdle == azOut = << >> /\ history = << >> /\ bulkOut = << >>

RangeAzimuthCall == RangeIdle /\ \E az_deg \in ArcTangents : NormaliseAzimuth(az_deg)
RangeStarCall == /\ RangeIdle
                 /\ \E tg \in RangeTargets, ob \in RangeObservers :
                        CalculateStarPosition(tg, ob)
RangeBatchCall == /\ RangeIdle
                  /\ \E tg \in RangeTargets, ob \in RangeObservers :
                         CalculateBulkPositions(<<StarTuple(tg), StarTuple(Vega)>>, ob)

NextRange == RangeAzimuthCall \/ RangeStarCall \/ RangeBatchCall

SpecRange == Init /\ [][NextRange]_vars

\* C23: the azimuth returned by calculate_bulk_positions and calculate_star_position
\* lies in [0, 360) and the altitude (after the refraction correction on the batch
\* path) lies in [-90, 90].
C23_OutputRanges ==
    /\ azOut # << >> => (0 <= azOut[1].azimuth /\ azOut[1].azimuth < Deg(360))
    /\ \A i \in DOMAIN history :
           /\ 0 <= history[i].ret.azimuth /\ history[i].ret.azimuth < 360
           /\ -90 <= history[i].ret.altitude /\ history[i].ret.altitude <= 90
    /\ bulkOut # << >> =>
           \A i \in DOMAIN bulkOut[1].result :
               /\ 0 <= bulkOut[1].result[i].azimuth /\ bulkOut[1].result[i].azimuth < 360
               /\ -90 <= bulkOut[1].result[i].altitude /\ bulkOut[1].result[i].altitude <= 90

(***************************************************************************)
(* SpecAgree: the single-star path and the batch path asked about the same *)
(* target by the same observer at the same instant.  The observers stand   *)
(* at sea level or at 3000 m, where a star on the celestial equator is     *)
(* near their horizon; the batch path never reads the elevation, the       *)
(* single path hands it to Skyfield, whose 'standard' refraction depends   *)
(* on it.                                                                  *)
(***************************************************************************)
AgreeObservers ==
    {[ObserverOn(lon) EXCEPT !.elevation = e] : lon \in {60, 88, 90, 91}, e \in {0, 3000}}
AgreeTargets == {EquinoxStar, Vega, Sirius}

AgreeStarCall == /\ history = << >>
                 /\ \E tg \in AgreeTargets, ob \in AgreeObservers :
                        CalculateStarPosition(tg, ob)
AgreeBatchCall == /\ bulkOut = << >>
                  /\ \E tg \in AgreeTargets, ob \in AgreeObservers :
                         CalculateBulkPositions(<<StarTuple(tg)>>, ob)

NextAgree == AgreeStarCall \/ AgreeBatchCall

SpecAgree == Init /\ [][NextAgree]_vars

\* the two calls were about the same target, observer and instant
SameQuestion ==
    /\ history # << >>
    /\ bulkOut # << >>
    /\ bulkOut[1].observer = history[1].observer
    /\ bulkOut[1].stars_data = <<StarTuple(history[1].target)>>

\* C24: for the same target, observer and instant, the altitude and the azimuth of
\* calculate_bulk_positions differ from those of calculate_star_position by no more
\* than 0.01 degrees.
C24_PathsAgree ==
    SameQuestion =>
        /\ 100 * Abs(bulkOut[1].result[1].altitude - history[1].ret.altitude) <= 1
        /\ 100 * Abs(bulkOut[1].result[1].azimuth - history[1].ret.azimuth) <= 1

(***************************************************************************)
(* SpecRace: calculate_star_position step by step.  The function is plain  *)
(* Python around a cachetools.TTLCache without a lock: a call tests        *)
(* "cache_key in calc_cache" (line 88), then reads calc_cache[cache_key]   *)
(* (line 89), or computes and stores (line 138).  Each of these cache      *)
(* operations reads the timer on its own.  Between two steps of one call   *)
(* the clock may advance and other calls may take their steps.  A frame    *)
(* of calls holds one call: its position (pc), its arguments, and how it   *)
(* ended.                                                                  *)
(***************************************************************************)
RaceTargets == {Sirius, Vega, EquinoxStar}
RaceObserver == ObserverAt(Some(1))

\* a request calls the function: cache_key is built (lines 85-86)
RaceEnter(tg) ==
    /\ Len(calls) < 3
    /\ calls' = Append(calls, [pc |-> "test", target |-> tg, observer |-> RaceObserver,
                               key |-> CacheKey(tg, RaceObserver), outcome |-> None])
    /\ UNCHANGED <<now, heap, calc_cache, history, bulkOut, houses_data, planet_house,
                   aspectOut, retro, chartVars, bodyVars, azOut>>

\* line 88: if cache_key in calc_cache
RaceTest(c) ==
    /\ calls[c].pc = "test"
    /\ calls' = [calls EXCEPT ![c].pc =
                    IF CacheContains(calc_cache, calls[c].key, now) THEN "read" ELSE "compute"]
    /\ UNCHANGED <<now, heap, calc_cache, history, bulkOut, houses_data, planet_house,
                   aspectOut, retro, chartVars, bodyVars, azOut>>

\* TTLCache.__getitem__: KeyError when the key has no link or its link has expired
CacheGetItem(cache, key, time) ==
    IF CacheContains(cache, key, time)
    THEN Returned(CacheGetValue(cache, key))
    ELSE Raises("KeyError")

\* lines 89-93: cached = calc_cache[cache_key], the three assignments, return cached
RaceRead(c) ==
    /\ calls[c].pc = "read"
    /\ LET got == CacheGetItem(calc_cache, calls[c].key, now)
       IN  IF got.kind = "return"
           THEN LET obj == OverwriteOnHit(heap[got.value], calls[c].target)
                IN  /\ calc_cache' = CacheTouch(calc_cache, calls[c].key)
                    /\ heap' = [heap EXCEPT ![got.value] = obj]
                    /\ calls' = [calls EXCEPT ![c].pc = "done",
                                              ![c].outcome = Some(Returned(obj))]
           ELSE /\ calls' = [calls EXCEPT ![c].pc = "done", ![c].outcome = Some(got)]
                /\ UNCHANGED <<heap, calc_cache>>
    /\ UNCHANGED <<now, history, bulkOut, houses_data, planet_house,
                   aspectOut, retro, chartVars, bodyVars, azOut>>

\* lines 95-139: the position is computed, stored and returned
RaceStore(c) ==
    /\ calls[c].pc = "compute"
    /\ LET position == NewStarPosition(calls[c].target, calls[c].observer, now)
       IN  /\ heap' = Append(heap, position)
           /\ calc_cache' = CacheSetItem(calc_cache, calls[c].key, Len(heap) + 1, now)
           /\ calls' = [calls EXCEPT ![c].pc = "done", ![c].outcome = Some(Returned(position))]
    /\ UNCHANGED <<now, history, bulkOut, houses_data, planet_house,
                   aspectOut, retro, chartVars, bodyVars, azOut>>

\* the clock advances while calls are in progress
RaceTick ==
    /\ calls # << >>
    /\ now < MaxTime
    /\ now' = now + 1
    /\ UNCHANGED <<heap, calc_cache, history, bulkOut, houses_data, planet_house,
                   aspectOut, retro, chartVars, bodyVars, edgeVars>>

RaceCall == \E tg \in RaceTargets : RaceEnter(tg)
RaceTestStep == \E c \in DOMAIN calls : RaceTest(c)
RaceReadStep == \E c \in DOMAIN calls : RaceRead(c)
RaceStoreStep == \E c \in DOMAIN calls : RaceStore(c)

NextRace == RaceCall \/ RaceTestStep \/ RaceReadStep \/ RaceStoreStep \/ RaceTick

SpecRace == Init /\ [][NextRace]_vars

\* C22: whatever the interleaving of the calls of simultaneous requests, of the clock
\* passing an entry's TTL and of evictions by other calls, no call fails with an
\* error: an entry the membership test found present is still readable by the read
\* that follows it.
C22_NoCallFails ==
    \A c \in DOMAIN calls :
        calls[c].outcome # None => calls[c].outcome[1].kind = "return"

=============================================================================
